---- MODULE Spec2Model ----
(***************************************************************************)
(* assertify::detail::basic_memory_pool (the diagnostic arena), the        *)
(* thread-local pool tl_pool, and format_value's use of the pool's         *)
(* allocator handle, as a state machine.                                   *)
(*                                                                         *)
(* Pool 0 is a pool object shared by all threads (the test fixture's       *)
(* pool_); pool t, for a thread t, is that thread's tl_pool.               *)
(* Addresses are integers.  std::pmr::monotonic_buffer_resource and its    *)
(* upstream (operator new) are modelled by what the standard prescribes:   *)
(* a bump pointer in the current chunk, a new and larger chunk when the    *)
(* current one is exhausted, release() giving every chunk back.            *)
(***************************************************************************)
EXTENDS Integers, Sequences, FiniteSets, TLC

\* ------------------------------------------------------------------ bounds
\* Total number of allocate calls (over all threads and pools) in one run.
MaxAllocs == 2
\* The number of allocate calls in the run with an over-aligned type.
AlignedAllocs == 3
\* Number of reset calls in one run.
MaxResets == 1
\* The length of the call sequences replayed on a reset pool and on a new
\* pool.
MaxCalls == 2
\* The clock (high_resolution_clock::now()) takes the values 0..MaxTime.
MaxTime == 1
\* allocations_per_thread of the scenario in which every worker thread
\* allocates a fixed number of times.
AllocsPerThread == 2
\* Number of format_value calls in one run.
MaxFormats == 2
\* Number of increment, add and reset calls on the counter in one
\* sequential run, and the number each worker thread makes in a concurrent
\* run (increments_per_thread).
MaxCounterOps == 3
CounterOpsPerThread == 2
\* Number of timed scopes in one sequential run, and the number each worker
\* thread completes in a concurrent run.
MaxScopes == 3
ScopesPerThread == 2

\* -------------------------------------------------------- program entities
\* The thread that runs the client program, the threads it starts to
\* allocate, and the thread it starts to deallocate.
Main == 1
Workers == {2, 3}
Deallocator == 4
Threads == {Main} \cup Workers \cup {Deallocator}
NoThread == 0
\* The shared pool object, and one tl_pool per thread.
SharedPool == 0
PoolIds == {SharedPool} \cup Threads

\* initial_size handed to the constructor (the default is 1024 * 1024; the
\* model uses a small one so that the buffer is exhausted and grows).
InitialSize == 64

\* sizeof / alignof of the element types the callers use, and of block_header
\* (size_t, bool, pointer, time_point on an LP64 build).
TypeInfo ==
    [char   |-> [size |-> 1, align |-> 1],
     int    |-> [size |-> 4, align |-> 4],
     double |-> [size |-> 8, align |-> 8],
     AlignedStruct |-> [size |-> 32, align |-> 32]]
BlockHeaderInfo == [size |-> 32, align |-> 8]
\* alignof(std::max_align_t): the alignment of every chunk from the upstream.
MaxAlign == 16

\* The (element type, count) pairs callers pass to allocate<T>(count).
AllocArgs == { <<"int", 1>>, <<"char", 0>>, <<"double", 2>> }
\* The pairs of a caller whose requests exceed what is left of the current
\* chunk, and the initial size itself (LargeAllocations).
LargeArgs == { <<"char", 100>>, <<"double", 5>>, <<"int", 1>> }
\* The requests of the run that resets the pool: one that fits the first
\* chunk and one that does not.
ResetArgs == { <<"int", 1>>, <<"char", 100>> }
\* The requests of the thread that allocates from a pool other threads use.
SharedArgs == { <<"int", 1>> }
\* AlignmentRequirements: struct alignas(32) AlignedStruct, among
\* allocations of other types.
AlignedArgs == { <<"AlignedStruct", 1>>, <<"int", 1>>, <<"char", 3>> }
\* The threads that use their own tl_pool in the scenario about the
\* per-thread pools.
Owners == {1, 2}
\* The operations each thread calls in the scenario about one pool used by
\* several threads: one thread allocates and deallocates, one resets and
\* counts, one asks for leaks.
Allocator == 1
Resetter == 2
Observer == 3
Sharers == {Allocator, Resetter, Observer}
SharedOps ==
    [t \in Sharers |->
       CASE t = Allocator -> {"allocate", "deallocate"}
         [] t = Resetter -> {"reset", "active_allocation_count"}
         [] OTHER -> {"has_memory_leaks", "get_leak_report"}]

\* The thread that times scopes on a counter while the test's thread reads
\* and resets it.
Timer == 2

\* Where the upstream heap starts, and the address of a local variable of a
\* caller (never inside the heap).
HeapBase == 64
StackVarAddr == 8
NullPtr == 0

VARIABLES
    pool,     \* pool[p]: the members of basic_memory_pool object p
    heap,     \* the upstream: [live: set of chunks, brk: high-water mark]
    now,      \* high_resolution_clock::now()
    impl,     \* what the library leaves to the implementation
    pc,       \* pc[t]: where thread t is in its current call
    op,       \* op[t]: the call thread t is in (name, pool, arguments)
    ret,      \* ret[t]: what thread t's last completed call returned
    issued,   \* issued[p]: every handle allocate has returned from pool p
    hist,     \* history of the run, for the statements about call sequences
    client,   \* the client program's own variables
    scenario, \* which client program the threads run
    counter,  \* the thread_safe_counter<int> object int_counter_
    perf      \* the concurrent_performance_counter object counter_

vars == <<pool, heap, now, impl, pc, op, ret, issued, hist, client, scenario, counter, perf>>

\* ------------------------------------------------------------- arithmetic
AlignUp(a, al) == ((a + al - 1) \div al) * al
Max(a, b) == IF a >= b THEN a ELSE b

\* A chunk [base, base + size) of the upstream.
ChunkEnd(c) == c.base + c.size
Overlaps(b, n, c) == b < ChunkEnd(c) /\ c.base < b + n

\* ------------------------------------------- monotonic_buffer_resource
\* monotonic_buffer_resource(initial_size): no chunk yet.
NewBuffer(initial_size) ==
    [cur |-> NullPtr, avail |-> 0, next_bufsiz |-> initial_size,
     orig_size |-> initial_size, chunks |-> {}]

\* The number of bytes a request of `bytes` consumes: whether a request of
\* 0 bytes consumes a byte is the implementation's choice (impl.zero_size).
Consumed(bytes) == IF bytes = 0 THEN impl.zero_size ELSE bytes

\* The places the upstream may return for a new chunk of n bytes: the start
\* of the heap when it is free again (memory given back is handed out
\* again), or fresh memory above everything handed out so far.
UpstreamChoices(h, n, al) ==
    LET a == Max(al, MaxAlign)
        low == AlignUp(HeapBase, a)
        fresh == AlignUp(h.brk, a)
    IN  {fresh} \cup
        (IF \A c \in h.live : ~Overlaps(low, n, c) THEN {low} ELSE {})

\* Whether allocate_bytes(bytes, align) fits the current chunk.
Fits(buf, bytes, align) ==
    /\ buf.chunks # {}
    /\ AlignUp(buf.cur, align) + Consumed(bytes) <= buf.cur + buf.avail

\* Mutant of allocate_bytes: a request that does not fit the current chunk
\* fails (a null pointer) instead of taking a new chunk from the upstream.
MonoAllocateNoGrow(buf, bytes, align, base) ==
    IF Fits(buf, bytes, align)
    THEN LET p == AlignUp(buf.cur, align)
         IN  [ptr |-> p,
              buf |-> [buf EXCEPT !.cur = p + Consumed(bytes),
                                  !.avail = buf.cur + buf.avail
                                            - (p + Consumed(bytes))],
              chunk |-> {}]
    ELSE IF buf.chunks = {} /\ Consumed(bytes) <= buf.next_bufsiz
    THEN LET c == [base |-> base, size |-> buf.next_bufsiz]
         IN  [ptr |-> base,
              buf |-> [buf EXCEPT !.cur = base + Consumed(bytes),
                                  !.avail = buf.next_bufsiz - Consumed(bytes),
                                  !.chunks = {c}],
              chunk |-> {c}]
    ELSE [ptr |-> NullPtr, buf |-> buf, chunk |-> {}]

\* Mutant of allocate_bytes: the bump pointer is not advanced.
MonoAllocateNoBump(buf, bytes, align, base) ==
    IF buf.chunks # {}
    THEN [ptr |-> AlignUp(buf.cur, align), buf |-> buf, chunk |-> {}]
    ELSE LET c == [base |-> base, size |-> buf.next_bufsiz]
         IN  [ptr |-> base,
              buf |-> [buf EXCEPT !.cur = base, !.avail = buf.next_bufsiz,
                                  !.chunks = {c}],
              chunk |-> {c}]

\* Mutant of allocate_bytes: the bump pointer is not aligned.
MonoAllocateNoAlign(buf, bytes, align, base) ==
    IF Fits(buf, bytes, align)
    THEN [ptr |-> buf.cur,
          buf |-> [buf EXCEPT !.cur = buf.cur + Consumed(bytes),
                              !.avail = buf.avail - Consumed(bytes)],
          chunk |-> {}]
    ELSE LET n == AlignUp(Max(Consumed(bytes), buf.next_bufsiz), MaxAlign)
             c == [base |-> base, size |-> n]
         IN  [ptr |-> base,
              buf |-> [buf EXCEPT !.cur = base + Consumed(bytes),
                                  !.avail = n - Consumed(bytes),
                                  !.next_bufsiz = 2 * buf.next_bufsiz,
                                  !.chunks = buf.chunks \cup {c}],
              chunk |-> {c}]
\* allocate_bytes(bytes, align) on the buffer: the pointer and the buffer
\* afterwards.  `base` is where the upstream puts a new chunk if one is
\* needed.
MonoAllocate(buf, bytes, align, base) ==
    IF Fits(buf, bytes, align)
    THEN LET p == AlignUp(buf.cur, align)
         IN  [ptr |-> p,
              buf |-> [buf EXCEPT !.cur = p + Consumed(bytes),
                                  !.avail = buf.cur + buf.avail
                                            - (p + Consumed(bytes))],
              chunk |-> {}]
    ELSE LET n == AlignUp(Max(Consumed(bytes), buf.next_bufsiz), MaxAlign)
             c == [base |-> base, size |-> n]
         IN  [ptr |-> base,
              buf |-> [buf EXCEPT !.cur = base + Consumed(bytes),
                                  !.avail = n - Consumed(bytes),
                                  !.next_bufsiz = 2 * buf.next_bufsiz,
                                  !.chunks = buf.chunks \cup {c}],
              chunk |-> {c}]

\* The upstream after it handed out the chunks cs.
HeapTake(h, cs) ==
    [live |-> h.live \cup cs,
     brk |-> IF cs = {} THEN h.brk
             ELSE Max(h.brk, CHOOSE e \in {ChunkEnd(c) : c \in cs} :
                                 \A c \in cs : ChunkEnd(c) <= e)]

\* release(): every chunk goes back to the upstream.
MonoRelease(buf) ==
    [buf EXCEPT !.cur = NullPtr, !.avail = 0,
                !.next_bufsiz = buf.orig_size, !.chunks = {}]
HeapGive(h, cs) == [h EXCEPT !.live = h.live \ cs]

\* ------------------------------------------------------ thread_safe_counter
\* Mutant of reset: the store is missing.
CounterResetNoStore(v) == v
\* std::atomic<T> value_{0} and its four operations (one atomic step each).
CounterInit == 0
CounterIncrement(v) == v + 1
CounterAdd(v, val) == v + val
CounterGet(v) == v
CounterReset(v) == 0

\* ---------------------------------------------------------------- maps
\* std::unordered_map as a function on its set of keys.
EmptyMap == [k \in {} |-> NullPtr]
MapPut(m, k, v) == [x \in DOMAIN m \cup {k} |-> IF x = k THEN v ELSE m[x]]
MapErase(m, k) == [x \in DOMAIN m \ {k} |-> m[x]]

\* ------------------------------------------------------ basic_memory_pool
\* basic_memory_pool(initial_size).  `headers` is the memory of the buffer
\* that holds block_header objects: headers[a] is the header at address a.
NewPool(initial_size) ==
    [buffer_ |-> NewBuffer(initial_size),
     mutex_ |-> [writer |-> NoThread, readers |-> {}],
     allocation_count_ |-> CounterInit,
     total_allocated_ |-> CounterInit,
     active_allocations_ |-> EmptyMap,
     headers |-> EmptyMap]

\* std::shared_mutex: lock / unlock, lock_shared / unlock_shared.
\* Mutant of the mutex: an exclusive lock does not wait for the readers.
CanLockIgnoringReaders(m) == m.writer = NoThread
CanLock(m) == m.writer = NoThread /\ m.readers = {}
\* Mutant of the mutex: a shared lock does not wait for the writer.
CanLockSharedIgnoringWriter(m) == TRUE
CanLockShared(m) == m.writer = NoThread
LockExclusive(m, t) == [m EXCEPT !.writer = t]
UnlockExclusive(m, t) == [m EXCEPT !.writer = NoThread]
LockShared(m, t) == [m EXCEPT !.readers = m.readers \cup {t}]
UnlockShared(m, t) == [m EXCEPT !.readers = m.readers \ {t}]

\* The places the upstream may use for the chunk allocate_bytes(bytes,
\* align) needs; {NullPtr} when the request fits the current chunk.
BaseChoices(buf, h, bytes, align) ==
    IF Fits(buf, bytes, align) THEN {NullPtr}
    ELSE UpstreamChoices(h,
             AlignUp(Max(Consumed(bytes), buf.next_bufsiz), MaxAlign), align)

\* Mutant of allocate: the record is filed under the header's address.
AllocateCodeKeyHeader(pl, T, count, tm, b1, b2) ==
    LET size == TypeInfo[T].size * count
        r1 == MonoAllocate(pl.buffer_, size, TypeInfo[T].align, b1)
        r2 == MonoAllocate(r1.buf, BlockHeaderInfo.size,
                           BlockHeaderInfo.align, b2)
        header == [size |-> size, allocated |-> TRUE,
                   allocation_time |-> tm]
    IN  [pool |-> [pl EXCEPT
                     !.buffer_ = r2.buf,
                     !.headers = MapPut(pl.headers, r2.ptr, header),
                     !.active_allocations_ =
                         MapPut(pl.active_allocations_, r2.ptr, r2.ptr),
                     !.allocation_count_ =
                         CounterIncrement(pl.allocation_count_),
                     !.total_allocated_ =
                         CounterAdd(pl.total_allocated_, size)],
         ptr |-> r1.ptr,
         chunks |-> r1.chunk \cup r2.chunk]

\* allocate<T>(count), between taking the lock and returning: the pool
\* afterwards, the pointer returned and the chunks taken from the upstream.
\* b1 and b2 are the upstream's choices for the two allocate_bytes calls.
\* Mutant of allocate: the header takes no bytes of the buffer of its own
\* (it is kept at the handle).
AllocateCodeNoHeaderBytes(pl, T, count, tm, b1, b2) ==
    LET size == TypeInfo[T].size * count
        r1 == MonoAllocate(pl.buffer_, size, TypeInfo[T].align, b1)
        header == [size |-> size, allocated |-> TRUE,
                   allocation_time |-> tm]
    IN  [pool |-> [pl EXCEPT
                     !.buffer_ = r1.buf,
                     !.headers = MapPut(pl.headers, r1.ptr, header),
                     !.active_allocations_ =
                         MapPut(pl.active_allocations_, r1.ptr, r1.ptr),
                     !.allocation_count_ =
                         CounterIncrement(pl.allocation_count_),
                     !.total_allocated_ =
                         CounterAdd(pl.total_allocated_, size)],
         ptr |-> r1.ptr,
         chunks |-> r1.chunk]
\* Mutant of allocate: the header is given the bytes of a pointer to it
\* (sizeof(header) for sizeof(block_header)).
AllocateCodeSmallHeader(pl, T, count, tm, b1, b2) ==
    LET size == TypeInfo[T].size * count
        r1 == MonoAllocate(pl.buffer_, size, TypeInfo[T].align, b1)
        r2 == MonoAllocate(r1.buf, 8, BlockHeaderInfo.align, b2)
        header == [size |-> size, allocated |-> TRUE,
                   allocation_time |-> tm]
    IN  [pool |-> [pl EXCEPT
                     !.buffer_ = r2.buf,
                     !.headers = MapPut(pl.headers, r2.ptr, header),
                     !.active_allocations_ =
                         MapPut(pl.active_allocations_, r1.ptr, r2.ptr),
                     !.allocation_count_ =
                         CounterIncrement(pl.allocation_count_),
                     !.total_allocated_ =
                         CounterAdd(pl.total_allocated_, size)],
         ptr |-> r1.ptr,
         chunks |-> r1.chunk \cup r2.chunk]
\* Mutant of allocate: total_allocated_ grows by the element count, not by
\* the byte size.
AllocateCodeAddCount(pl, T, count, tm, b1, b2) ==
    LET size == TypeInfo[T].size * count
        r1 == MonoAllocate(pl.buffer_, size, TypeInfo[T].align, b1)
        r2 == MonoAllocate(r1.buf, BlockHeaderInfo.size,
                           BlockHeaderInfo.align, b2)
        header == [size |-> size, allocated |-> TRUE,
                   allocation_time |-> tm]
    IN  [pool |-> [pl EXCEPT
                     !.buffer_ = r2.buf,
                     !.headers = MapPut(pl.headers, r2.ptr, header),
                     !.active_allocations_ =
                         MapPut(pl.active_allocations_, r1.ptr, r2.ptr),
                     !.allocation_count_ =
                         CounterIncrement(pl.allocation_count_),
                     !.total_allocated_ =
                         CounterAdd(pl.total_allocated_, count)],
         ptr |-> r1.ptr,
         chunks |-> r1.chunk \cup r2.chunk]
AllocateCode(pl, T, count, tm, b1, b2) ==
    LET size == TypeInfo[T].size * count
        r1 == MonoAllocate(pl.buffer_, size, TypeInfo[T].align, b1)
        r2 == MonoAllocate(r1.buf, BlockHeaderInfo.size,
                           BlockHeaderInfo.align, b2)
        header == [size |-> size, allocated |-> TRUE,
                   allocation_time |-> tm]
    IN  [pool |-> [pl EXCEPT
                     !.buffer_ = r2.buf,
                     !.headers = MapPut(pl.headers, r2.ptr, header),
                     !.active_allocations_ =
                         MapPut(pl.active_allocations_, r1.ptr, r2.ptr),
                     !.allocation_count_ =
                         CounterIncrement(pl.allocation_count_),
                     !.total_allocated_ =
                         CounterAdd(pl.total_allocated_, size)],
         ptr |-> r1.ptr,
         chunks |-> r1.chunk \cup r2.chunk]

\* Mutants of deallocate: the record is marked but not erased; the lifetime
\* counters are touched before the lookup; the allocation is undone in the
\* lifetime counters.
DeallocateCodeNoErase(pl, ptr) ==
    IF ptr \in DOMAIN pl.active_allocations_
    THEN [pl EXCEPT !.headers = [pl.headers EXCEPT
                        ![pl.active_allocations_[ptr]].allocated = FALSE]]
    ELSE pl
DeallocateCodeCountAll(pl, ptr) ==
    LET q == [pl EXCEPT !.allocation_count_ = @ - 1]
    IN  IF ptr \in DOMAIN pl.active_allocations_
        THEN [q EXCEPT !.active_allocations_ = MapErase(@, ptr)]
        ELSE q
DeallocateCodeUndo(pl, ptr) ==
    IF ptr \in DOMAIN pl.active_allocations_
    THEN LET h == pl.active_allocations_[ptr]
         IN  [pl EXCEPT
                !.headers = [pl.headers EXCEPT ![h].allocated = FALSE],
                !.active_allocations_ = MapErase(pl.active_allocations_, ptr),
                !.allocation_count_ = @ - 1,
                !.total_allocated_ = @ - pl.headers[h].size]
    ELSE pl
\* Mutant of deallocate: the whole header is cleared, not only its flag.
DeallocateCodeWipeHeader(pl, ptr) ==
    IF ptr \in DOMAIN pl.active_allocations_
    THEN LET h == pl.active_allocations_[ptr]
         IN  [pl EXCEPT
                !.headers = [pl.headers EXCEPT
                               ![h] = [size |-> 0, allocated |-> FALSE,
                                       allocation_time |-> 0]],
                !.active_allocations_ = MapErase(pl.active_allocations_, ptr)]
    ELSE pl

\* deallocate(ptr), between taking the lock and returning.
DeallocateCode(pl, ptr) ==
    IF ptr \in DOMAIN pl.active_allocations_
    THEN LET h == pl.active_allocations_[ptr]
         IN  [pl EXCEPT
                !.headers = [pl.headers EXCEPT ![h].allocated = FALSE],
                !.active_allocations_ = MapErase(pl.active_allocations_, ptr)]
    ELSE pl

\* active_allocation_count(), under the shared lock.
ActiveAllocationCountCode(pl) == Cardinality(DOMAIN pl.active_allocations_)

\* Mutant of has_memory_leaks: the lifetime counter is read, not the table.
HasMemoryLeaksCodeLifetime(pl) == CounterGet(pl.allocation_count_) > 0

\* has_memory_leaks(): active_allocation_count() > 0.
HasMemoryLeaksCode(pl) == ActiveAllocationCountCode(pl) > 0

\* Mutant of reset: the tracking table is not cleared.
ResetCodeKeepTable(pl) ==
    [pl EXCEPT !.buffer_ = MonoRelease(pl.buffer_),
               !.allocation_count_ = CounterReset(pl.allocation_count_),
               !.total_allocated_ = CounterReset(pl.total_allocated_)]

\* Mutant of reset: the lifetime counters are not reset.
ResetCodeKeepCounters(pl) ==
    [pl EXCEPT !.buffer_ = MonoRelease(pl.buffer_),
               !.headers = EmptyMap,
               !.active_allocations_ = EmptyMap]
\* reset(), between taking the lock and returning.
ResetCode(pl) ==
    [pl EXCEPT !.buffer_ = MonoRelease(pl.buffer_),
               !.headers = EmptyMap,
               !.active_allocations_ = EmptyMap,
               !.allocation_count_ = CounterReset(pl.allocation_count_),
               !.total_allocated_ = CounterReset(pl.total_allocated_)]

\* duration_cast<duration<double>> of a count of clock ticks (nanoseconds):
\* the number of seconds, as the fraction num / den.
NanosPerSecond == 1000000000
DurationCast(ticks) == [num |-> ticks, den |-> NanosPerSecond]

\* The keys of a map in ascending order (the order a report is kept in; the
\* iteration order of unordered_map is unspecified).
RECURSIVE SortedSeq(_)
SortedSeq(S) ==
    IF S = {} THEN <<>>
    ELSE LET m == CHOOSE x \in S : \A y \in S : x <= y
         IN  <<m>> \o SortedSeq(S \ {m})

\* Mutant of get_leak_report: the subtraction is the wrong way round.
GetLeakReportCodeSwapped(pl, tm) ==
    LET keys == SortedSeq(DOMAIN pl.active_allocations_)
    IN  [i \in 1..Len(keys) |->
            <<keys[i],
              DurationCast(pl.headers[pl.active_allocations_[keys[i]]]
                               .allocation_time - tm)>>]

\* get_leak_report(), under the shared lock: one (ptr, duration) pair per
\* entry of active_allocations_.
GetLeakReportCode(pl, tm) ==
    LET keys == SortedSeq(DOMAIN pl.active_allocations_)
    IN  [i \in 1..Len(keys) |->
            <<keys[i],
              DurationCast(tm - pl.headers[pl.active_allocations_[keys[i]]]
                                     .allocation_time)>>]

\* -------------------------------------------- concurrent_performance_counter
\* A counter with no sample: the retained samples in arrival order, the lock
\* that protects them, and the atomic aggregates.
\* The value the minimum holds while there is no sample (the largest
\* duration), so that the first sample becomes the minimum.
NoMin == 2147483647
\* Mutant of the counter's construction: the minimum starts at 0.
NewPerfZeroMin ==
    [samples |-> <<>>,
     lock |-> [writer |-> NoThread, readers |-> {}],
     count |-> 0, total |-> 0, min |-> 0, max |-> 0]
NewPerf ==
    [samples |-> <<>>,
     lock |-> [writer |-> NoThread, readers |-> {}],
     count |-> 0, total |-> 0, min |-> NoMin, max |-> 0]

\* The commit of a sample d: appended to the retained samples under the
\* lock, then one atomic update per aggregate.
PerfAppend(pf, d) == [pf EXCEPT !.samples = Append(@, d)]
PerfAddCount(pf) == [pf EXCEPT !.count = CounterIncrement(@)]
PerfAddTotal(pf, d) == [pf EXCEPT !.total = CounterAdd(@, d)]
PerfUpdateMin(pf, d) == [pf EXCEPT !.min = IF d < @ THEN d ELSE @]
\* Mutant of the commit: the maximum is stored, not compared.
PerfUpdateMaxStore(pf, d) == [pf EXCEPT !.max = d]
PerfUpdateMax(pf, d) == [pf EXCEPT !.max = IF d > @ THEN d ELSE @]

\* The aggregate readers: 0 when there is no sample.
PerfCount(pf) == pf.count
PerfTotalTimeNs(pf) == IF pf.count = 0 THEN 0 ELSE pf.total
\* Mutant of min_time_ns: the stored minimum is returned as it is.
PerfMinTimeNsRaw(pf) == pf.min
PerfMinTimeNs(pf) == IF pf.count = 0 THEN 0 ELSE pf.min
PerfMaxTimeNs(pf) == IF pf.count = 0 THEN 0 ELSE pf.max
\* average_time_ns(): total / count as the fraction num / den, 0.0 when
\* there is no sample.
PerfAverageTimeNs(pf) ==
    IF pf.count = 0 THEN [num |-> 0, den |-> 1]
    ELSE [num |-> pf.total, den |-> pf.count]

\* A sequence in ascending order (the sorted copy percentile works on).
RECURSIVE Insert(_, _)
Insert(sq, x) ==
    IF sq = <<>> THEN <<x>>
    ELSE IF x <= Head(sq) THEN <<x>> \o sq
    ELSE <<Head(sq)>> \o Insert(Tail(sq), x)
RECURSIVE SortedCopy(_)
SortedCopy(sq) ==
    IF sq = <<>> THEN <<>> ELSE Insert(SortedCopy(Tail(sq)), Head(sq))

\* percentile(p) of a copy of the samples: 0 when there is none, otherwise
\* the linear interpolation between the two order statistics around the
\* rank p / 100 * (n - 1), truncated to a whole number of nanoseconds.
\* Mutant of percentile: the copy is interpolated without being sorted.
PerfPercentileUnsorted(copy, p) ==
    IF copy = <<>> THEN 0
    ELSE LET n == Len(copy)
             lo == (p * (n - 1)) \div 100
             hi == IF lo + 1 < n THEN lo + 1 ELSE lo
             frac == (p * (n - 1)) % 100
         IN copy[lo + 1] + (frac * (copy[hi + 1] - copy[lo + 1])) \div 100
PerfPercentile(copy, p) ==
    IF copy = <<>> THEN 0
    ELSE LET sorted == SortedCopy(copy)
             n == Len(sorted)
             lo == (p * (n - 1)) \div 100
             hi == IF lo + 1 < n THEN lo + 1 ELSE lo
             frac == (p * (n - 1)) % 100
         IN  sorted[lo + 1]
               + (frac * (sorted[hi + 1] - sorted[lo + 1])) \div 100

\* Mutant of reset: the minimum is not put back.
PerfResetKeepMin(pf) ==
    [pf EXCEPT !.samples = <<>>, !.count = 0, !.total = 0, !.max = 0]

\* reset(): the samples and the aggregates of a counter with no sample.
PerfReset(pf) ==
    [pf EXCEPT !.samples = <<>>, !.count = 0, !.total = 0,
               !.min = NoMin, !.max = 0]

\* ------------------------------------------------------------ the threads
NoOp == [name |-> "none"]
NoRet == [kind |-> "none"]

\* The pool thread t calls: its own tl_pool in the scenario about tl_pool,
\* the shared pool object otherwise.
\* Mutant of tl_pool: one pool object for all threads (not thread_local).
TargetGlobal(t) == IF scenario \in {"tl_pool", "arenas"} THEN Main ELSE SharedPool

Target(t) == IF scenario \in {"tl_pool", "arenas"} THEN t ELSE SharedPool

\* Whether thread t is a thread of the client program that calls the pool's
\* operations in any order: the main thread, or every owner of a tl_pool.
Client(t) ==
    \/ /\ scenario \in {"sequential", "tl_pool", "large", "aligned", "reset",
                       "stale"}
       /\ t = Main
    \/ scenario = "arenas" /\ t \in Owners

\* Whether thread t calls the pool operation `name` in this run.
Calls(t, name) ==
    IF scenario = "shared" THEN t \in Sharers /\ name \in SharedOps[t]
    ELSE IF name \in {"has_memory_leaks", "get_leak_report"}
    THEN scenario = "sequential" /\ t = Main
    ELSE Client(t)

\* The argument pairs the client program passes to allocate.
ArgsFor(sc) ==
    CASE sc = "large" -> LargeArgs
      [] sc = "aligned" -> AlignedArgs
      [] sc = "reset" -> ResetArgs
      [] sc = "arenas" -> { <<"int", 1>> }
      [] sc = "shared" -> SharedArgs
      [] OTHER -> AllocArgs

\* What the client program does with the value r a call of thread t
\* returned: a worker pushes the handle on its vector, the main thread notes
\* the counts it reads and moves to its next phase; a client that goes on
\* using the pool after a reset still holds the handles it was given before.
Deliver(t, r) ==
    CASE scenario = "stale" /\ r.kind = "reset" ->
           [client EXCEPT !.old = issued[r.pool]]
      [] scenario \in {"threads", "alloc_dealloc"} /\ r.kind = "allocate" ->
           [client EXCEPT !.ptrs[t] = Append(@, r.val),
                          !.total_allocations = @ + 1]
      [] scenario \in {"threads", "alloc_dealloc"}
           /\ r.kind = "active_allocation_count" ->
           [client EXCEPT !.counts = Append(@, r.val),
                          !.phase = IF @ = "joined" THEN "cleanup"
                                    ELSE "done"]
      [] OTHER -> client

\* A call begins: the thread leaves "idle" with the call's arguments.
Begin(t, o, at) ==
    /\ pc[t] = "idle"
    /\ op' = [op EXCEPT ![t] = o]
    /\ pc' = [pc EXCEPT ![t] = at]
    /\ ret' = [ret EXCEPT ![t] = NoRet]

\* A call returns r: the thread is idle again.
Return(t, r) ==
    /\ op' = [op EXCEPT ![t] = NoOp]
    /\ pc' = [pc EXCEPT ![t] = "idle"]
    /\ ret' = [ret EXCEPT ![t] = r]
    /\ client' = Deliver(t, r)

\* std::unique_lock lock(mutex_): blocks until the mutex is free.
TakeExclusive(t, from, to) ==
    /\ pc[t] = from
    /\ CanLock(pool[op[t].pool].mutex_)
    /\ pool' = [pool EXCEPT ![op[t].pool].mutex_ = LockExclusive(@, t)]
    /\ pc' = [pc EXCEPT ![t] = to]
    /\ UNCHANGED <<heap, now, impl, op, ret, issued, hist, client, scenario, counter, perf>>

\* std::shared_lock lock(mutex_): blocks while a writer holds the mutex.
TakeShared(t, from, to) ==
    /\ pc[t] = from
    /\ CanLockShared(pool[op[t].pool].mutex_)
    /\ pool' = [pool EXCEPT ![op[t].pool].mutex_ = LockShared(@, t)]
    /\ pc' = [pc EXCEPT ![t] = to]
    /\ UNCHANGED <<heap, now, impl, op, ret, issued, hist, client, scenario, counter, perf>>

\* ---- allocate<T>(count)
AllocateBegin(t, a) ==
    /\ Begin(t, [name |-> "allocate", pool |-> Target(t), type |-> a[1],
                 count |-> a[2], id |-> hist.allocs + 1], "allocate_lock")
    /\ hist' = [hist EXCEPT !.allocs = @ + 1]
    /\ UNCHANGED <<pool, heap, now, impl, issued, client, scenario, counter, perf>>

\* The number of allocate calls of a run.
AllocLimit(sc) == IF sc = "aligned" THEN AlignedAllocs ELSE MaxAllocs

\* The client calls allocate with any of the argument pairs.
AllocateCall(t) ==
    /\ Calls(t, "allocate")
    /\ hist.allocs < AllocLimit(scenario)
    /\ \E a \in ArgsFor(scenario) : AllocateBegin(t, a)

\* A worker thread of ThreadSafetyAllocations: allocations_per_thread calls
\* of allocate<int>().
WorkerAllocateCall(t) ==
    /\ scenario = "threads"
    /\ t \in Workers
    /\ client.phase = "run"
    /\ Len(client.ptrs[t]) < AllocsPerThread
    /\ AllocateBegin(t, <<"int", 1>>)

\* An allocator thread of ThreadSafetyConcurrentAllocDealloc: allocate<int>()
\* for as long as stop_flag is not set.
AllocatorAllocateCall(t) ==
    /\ scenario = "alloc_dealloc"
    /\ t \in Workers
    /\ client.phase = "run"
    /\ ~client.stop
    /\ hist.allocs < MaxAllocs
    /\ AllocateBegin(t, <<"int", 1>>)

AllocateLock(t) == TakeExclusive(t, "allocate_lock", "allocate_body")

AllocateBody(t) ==
    /\ pc[t] = "allocate_body"
    /\ LET p == op[t].pool
           pl == pool[p]
           T == op[t].type
           size == TypeInfo[T].size * op[t].count
       IN  \E b1 \in BaseChoices(pl.buffer_, heap, size, TypeInfo[T].align) :
             LET r1 == MonoAllocate(pl.buffer_, size, TypeInfo[T].align, b1)
             IN  \E b2 \in BaseChoices(r1.buf, HeapTake(heap, r1.chunk),
                                       BlockHeaderInfo.size,
                                       BlockHeaderInfo.align) :
                   LET r == AllocateCode(pl, T, op[t].count, now, b1, b2)
                   IN  /\ pool' = [pool EXCEPT ![p] =
                               [r.pool EXCEPT
                                  !.mutex_ = UnlockExclusive(@, t)]]
                       /\ heap' = HeapTake(heap, r.chunks)
                       /\ issued' = [issued EXCEPT ![p] = @ \cup {r.ptr}]
                       /\ hist' = [hist EXCEPT
                               !.outstanding[p] =
                                   @ \cup {<<op[t].id, r.ptr>>},
                               !.completed[p] =
                                   [calls |-> @.calls + 1,
                                    bytes |-> @.bytes + size],
                               !.last = [name |-> "allocate", pool |-> p,
                                         ptr |-> r.ptr]]
                       /\ Return(t, [kind |-> "allocate", pool |-> p,
                                     val |-> r.ptr])
    /\ UNCHANGED <<now, impl, scenario, counter, perf>>

\* ---- deallocate(ptr)
DeallocateBegin(t, h) ==
    /\ Begin(t, [name |-> "deallocate", pool |-> Target(t), ptr |-> h],
             "deallocate_lock")
    /\ UNCHANGED <<pool, heap, now, impl, issued, hist, scenario, counter, perf>>

\* The client calls deallocate with any handle the pool ever returned, or
\* with the address of a local variable.
DeallocateCall(t) ==
    /\ Calls(t, "deallocate")
    /\ \E h \in issued[Target(t)] \cup {StackVarAddr} : DeallocateBegin(t, h)
    /\ UNCHANGED client

\* The deallocator thread of ThreadSafetyConcurrentAllocDealloc: it pops the
\* last handle of an allocator's vector and deallocates it.
DeallocatorDeallocateCall(t) ==
    /\ scenario = "alloc_dealloc"
    /\ t = Deallocator
    /\ client.phase = "run"
    /\ \E w \in Workers :
         /\ client.ptrs[w] # <<>>
         /\ DeallocateBegin(t, client.ptrs[w][Len(client.ptrs[w])])
         /\ client' = [client EXCEPT
                 !.ptrs[w] = SubSeq(@, 1, Len(@) - 1),
                 !.total_deallocations = @ + 1]

\* The main thread, after the join, deallocates the handles left in the
\* vectors, in order.
MainDeallocateCall(t) ==
    /\ scenario \in {"threads", "alloc_dealloc"}
    /\ t = Main
    /\ client.phase = "cleanup"
    /\ \E w \in Workers :
         /\ client.ptrs[w] # <<>>
         /\ \A v \in Workers : v < w => client.ptrs[v] = <<>>
         /\ DeallocateBegin(t, Head(client.ptrs[w]))
         /\ client' = [client EXCEPT !.ptrs[w] = Tail(@)]

DeallocateLock(t) == TakeExclusive(t, "deallocate_lock", "deallocate_body")

\* Mutant of deallocate: the lock is released by hand, and the path that
\* does not find the handle returns without releasing it.
DeallocateBodyEarlyReturn(t) ==
    /\ pc[t] = "deallocate_body"
    /\ LET p == op[t].pool
           h == op[t].ptr
           found == h \in DOMAIN pool[p].active_allocations_
       IN  /\ pool' = [pool EXCEPT ![p] =
                   IF found
                   THEN [DeallocateCode(pool[p], h) EXCEPT
                           !.mutex_ = UnlockExclusive(@, t)]
                   ELSE pool[p]]
           /\ hist' = [hist EXCEPT
                   !.outstanding[p] = IF found THEN {c \in @ : c[2] # h}
                                      ELSE @,
                   !.freed[p] = IF found THEN @ \cup {h} ELSE @,
                   !.last = [name |-> "deallocate", pool |-> p, ptr |-> h,
                             found |-> found,
                             again |-> h \in hist.freed[p]]]
    /\ Return(t, [kind |-> "deallocate", pool |-> op[t].pool])
    /\ UNCHANGED <<heap, now, impl, issued, scenario, counter, perf>>

DeallocateBody(t) ==
    /\ pc[t] = "deallocate_body"
    /\ LET p == op[t].pool
           h == op[t].ptr
           found == h \in DOMAIN pool[p].active_allocations_
       IN  /\ pool' = [pool EXCEPT ![p] =
                   [DeallocateCode(pool[p], h) EXCEPT
                      !.mutex_ = UnlockExclusive(@, t)]]
           /\ hist' = [hist EXCEPT
                   !.outstanding[p] = IF found THEN {c \in @ : c[2] # h}
                                      ELSE @,
                   !.freed[p] = IF found THEN @ \cup {h} ELSE @,
                   !.last = [name |-> "deallocate", pool |-> p, ptr |-> h,
                             found |-> found,
                             again |-> h \in hist.freed[p]]]
    /\ Return(t, [kind |-> "deallocate", pool |-> op[t].pool])
    /\ UNCHANGED <<heap, now, impl, issued, scenario, counter, perf>>

\* ---- reset().  The history notes which calls of other threads on the
\* same pool were in progress when the reset cleared the table.
ResetCall(t) ==
    /\ Calls(t, "reset")
    /\ hist.resets < MaxResets
    /\ Begin(t, [name |-> "reset", pool |-> Target(t)], "reset_lock")
    /\ hist' = [hist EXCEPT !.resets = @ + 1]
    /\ UNCHANGED <<pool, heap, now, impl, issued, client, scenario, counter, perf>>

ResetLock(t) == TakeExclusive(t, "reset_lock", "reset_body")

ResetBody(t) ==
    /\ pc[t] = "reset_body"
    /\ LET p == op[t].pool
       IN  /\ pool' = [pool EXCEPT ![p] =
                   [ResetCode(pool[p]) EXCEPT
                      !.mutex_ = UnlockExclusive(@, t)]]
           /\ heap' = HeapGive(heap, pool[p].buffer_.chunks)
           /\ hist' = [hist EXCEPT !.outstanding[p] = {},
                                   !.freed[p] = {},
                                   !.completed[p] =
                                       [calls |-> 0, bytes |-> 0],
                                   !.formatted[p] = 0,
                                   !.last =
                                       [name |-> "reset", pool |-> p,
                                        during |->
                                          {op[u].name :
                                             u \in {v \in Threads \ {t} :
                                                      /\ pc[v] # "idle"
                                                      /\ op[v].pool = p}}]]
    /\ Return(t, [kind |-> "reset", pool |-> op[t].pool])
    /\ UNCHANGED <<now, impl, issued, scenario, counter, perf>>

\* ---- active_allocation_count()
ActiveAllocationCountBegin(t) ==
    /\ Begin(t, [name |-> "active_allocation_count", pool |-> Target(t)],
             "count_lock")
    /\ UNCHANGED <<pool, heap, now, impl, issued, hist, client, scenario, counter, perf>>

ActiveAllocationCountCall(t) ==
    /\ Calls(t, "active_allocation_count")
    /\ ActiveAllocationCountBegin(t)

\* The main thread reads the count after the join and again once every
\* handle has been deallocated.
MainCountCall(t) ==
    /\ scenario \in {"threads", "alloc_dealloc"}
    /\ t = Main
    /\ \/ client.phase = "joined"
       \/ client.phase = "cleanup" /\ \A w \in Workers : client.ptrs[w] = <<>>
    /\ ActiveAllocationCountBegin(t)

ActiveAllocationCountLock(t) == TakeShared(t, "count_lock", "count_body")

ActiveAllocationCountBody(t) ==
    /\ pc[t] = "count_body"
    /\ LET p == op[t].pool
       IN  /\ pool' = [pool EXCEPT ![p].mutex_ = UnlockShared(@, t)]
           /\ Return(t, [kind |-> "active_allocation_count", pool |-> p,
                         val |-> ActiveAllocationCountCode(pool[p])])
    /\ UNCHANGED <<heap, now, impl, issued, hist, scenario, counter, perf>>

\* ---- has_memory_leaks(): the shared lock is the one its call of
\* active_allocation_count() takes.
HasMemoryLeaksCall(t) ==
    /\ Calls(t, "has_memory_leaks")
    /\ Begin(t, [name |-> "has_memory_leaks", pool |-> Target(t)],
             "leaks_lock")
    /\ UNCHANGED <<pool, heap, now, impl, issued, hist, client, scenario, counter, perf>>

HasMemoryLeaksLock(t) == TakeShared(t, "leaks_lock", "leaks_body")

HasMemoryLeaksBody(t) ==
    /\ pc[t] = "leaks_body"
    /\ LET p == op[t].pool
       IN  /\ pool' = [pool EXCEPT ![p].mutex_ = UnlockShared(@, t)]
           /\ Return(t, [kind |-> "has_memory_leaks", pool |-> p,
                         val |-> HasMemoryLeaksCode(pool[p])])
    /\ UNCHANGED <<heap, now, impl, issued, hist, scenario, counter, perf>>

\* ---- get_leak_report()
GetLeakReportCall(t) ==
    /\ Calls(t, "get_leak_report")
    /\ Begin(t, [name |-> "get_leak_report", pool |-> Target(t)],
             "report_lock")
    /\ UNCHANGED <<pool, heap, now, impl, issued, hist, client, scenario, counter, perf>>

GetLeakReportLock(t) == TakeShared(t, "report_lock", "report_body")

GetLeakReportBody(t) ==
    /\ pc[t] = "report_body"
    /\ LET p == op[t].pool
       IN  /\ pool' = [pool EXCEPT ![p].mutex_ = UnlockShared(@, t)]
           /\ Return(t, [kind |-> "get_leak_report", pool |-> p, at |-> now,
                         val |-> GetLeakReportCode(pool[p], now)])
    /\ UNCHANGED <<heap, now, impl, issued, hist, scenario, counter, perf>>

\* ---- the client program around the calls
\* stop_flag.store(true)
MainStop ==
    /\ scenario = "alloc_dealloc"
    /\ client.phase = "run"
    /\ ~client.stop
    /\ client' = [client EXCEPT !.stop = TRUE]
    /\ UNCHANGED <<pool, heap, now, impl, pc, op, ret, issued, hist, scenario, counter, perf>>

\* thread.join() of every thread the main thread started: the workers have
\* made all their calls, or the stop flag is set, and no call is in progress.
MainJoin ==
    /\ client.phase = "run"
    /\ \A t \in Workers \cup {Deallocator} : pc[t] = "idle"
    /\ \/ /\ scenario = "threads"
          /\ \A w \in Workers : Len(client.ptrs[w]) = AllocsPerThread
          /\ client' = [client EXCEPT !.phase = "joined"]
       \/ /\ scenario = "counter_threads"
          /\ \A w \in Workers : client.done[w] = CounterOpsPerThread
          /\ client' = [client EXCEPT !.phase = "joined"]
       \/ /\ scenario = "perf_threads"
          /\ \A w \in Workers : client.done[w] = ScopesPerThread
          /\ client' = [client EXCEPT !.phase = "joined"]
       \/ /\ scenario = "alloc_dealloc"
          /\ client.stop
          /\ client' = [client EXCEPT !.phase = "cleanup"]
    /\ UNCHANGED <<pool, heap, now, impl, pc, op, ret, issued, hist, scenario, counter, perf>>

\* ---- format_value(value)
\* value_formatter<T>::format for a string (quoted) and for a vector of int
\* (at most max_display items between brackets).
MaxDisplay == 10
RECURSIVE FormatItems(_, _)
FormatItems(items, count) ==
    IF items = <<>> THEN ""
    ELSE IF count >= MaxDisplay THEN ", ..."
    ELSE (IF count > 0 THEN ", " ELSE "") \o ToString(Head(items))
             \o FormatItems(Tail(items), count + 1)
FormatCode(v) ==
    IF v.kind = "string" THEN "\"" \o v.text \o "\""
    ELSE "[" \o FormatItems(v.items, 0) \o "]"

\* The values the client formats.
FormatInputs ==
    { [kind |-> "string", text |-> "test1"],
      [kind |-> "vector", items |-> <<1, 2, 3>>],
      [kind |-> "string", text |-> "a text longer than the small buffer"],
      [kind |-> "throwing"] }

\* value_formatter<T>::format(value) as format_value sees it: the string it
\* returns, or the exception that leaves it.  A ThrowingStreamableType is
\* streamable and its operator<< throws.
ValueFormatterFormat(v) ==
    IF v.kind = "throwing" THEN [thrown |-> TRUE, val |-> ""]
    ELSE [thrown |-> FALSE, val |-> FormatCode(v)]

\* Mutant of format_value: no catch(...), the exception leaves the call.
FormatValueCodeRethrow(v) == ValueFormatterFormat(v)
\* format_value's try and catch(...): what the formatter returned, or the
\* string "unprintable" when an exception left the formatter.
FormatValueCode(v) ==
    LET r == ValueFormatterFormat(v)
    IN  IF r.thrown THEN [thrown |-> FALSE, val |-> "unprintable"] ELSE r

\* The characters a fast_string holds without asking its allocator.
SsoCapacity == 15

\* The bytes a fast_string of the text s asks of its allocator, the handle
\* get_allocator<char>() returned: polymorphic_allocator<char>(&buffer_).
StringBytes(s) == IF Len(s) > SsoCapacity THEN Len(s) + 1 ELSE 0

\* format_value(value) on thread t: the result's buffer comes straight from
\* tl_pool's buffer_; allocate<T>() is not called and no lock is taken.
FormatValue(t) ==
    /\ scenario = "tl_pool"
    /\ pc[t] = "idle"
    /\ hist.formats < MaxFormats
    /\ \E v \in FormatInputs :
         LET out == FormatValueCode(v)
             s == out.val
             p == Target(t)
             n == StringBytes(s)
         IN  /\ IF n = 0
                THEN UNCHANGED <<pool, heap>>
                ELSE \E b \in BaseChoices(pool[p].buffer_, heap, n, 1) :
                       LET r == MonoAllocate(pool[p].buffer_, n, 1, b)
                       IN  /\ pool' = [pool EXCEPT ![p].buffer_ = r.buf]
                           /\ heap' = HeapTake(heap, r.chunk)
             /\ ret' = [ret EXCEPT ![t] = [kind |-> "format_value",
                                           pool |-> p, arg |-> v,
                                           thrown |-> out.thrown, val |-> s]]
             /\ hist' = [hist EXCEPT !.formats = @ + 1,
                                     !.formatted[p] = @ + 1]
    /\ UNCHANGED <<now, impl, pc, op, issued, client, scenario, counter, perf>>

\* ---- thread_safe_counter<int> int_counter_
\* The values the callers pass to add.
AddValues == {5, -3, 100}
\* The values the worker threads pass to add (value_per_thread, and a
\* negative one).
WorkerAddValues == {100, -3}

\* Whether thread t may make a call that changes the counter: the test's
\* thread in the sequential run, a worker that has calls left to make in
\* the concurrent run.
CanUpdate(t) ==
    \/ /\ scenario = "counter"
       /\ t = Main
       /\ hist.updates < MaxCounterOps
    \/ /\ scenario = "counter_threads"
       /\ t \in Workers
       /\ client.phase = "run"
       /\ client.done[t] < CounterOpsPerThread

\* The history and the caller's variables after thread t changed the
\* counter by `amount`.
Updated(t, name, amount) ==
    /\ hist' = [hist EXCEPT !.updates = @ + 1, !.sum = @ + amount,
                            !.added = @ + amount,
                            !.increments =
                                IF name = "increment" THEN @ + 1 ELSE @,
                            !.last = [name |-> name, thread |-> t]]
    /\ client' = [client EXCEPT !.done[t] = @ + 1]

\* Mutant of increment: value_.store(value_.load() + 1), two steps.
IncrementCallLoadStore(t) ==
    \/ /\ pc[t] = "idle"
       /\ CanUpdate(t)
       /\ pc' = [pc EXCEPT ![t] = "increment_store"]
       /\ op' = [op EXCEPT ![t] = [name |-> "increment",
                                   seen |-> CounterGet(counter)]]
       /\ UNCHANGED <<pool, heap, now, impl, ret, issued, hist, client,
                      scenario, counter, perf>>
    \/ /\ pc[t] = "increment_store"
       /\ counter' = CounterIncrement(op[t].seen)
       /\ pc' = [pc EXCEPT ![t] = "idle"]
       /\ op' = [op EXCEPT ![t] = NoOp]
       /\ ret' = [ret EXCEPT ![t] = [kind |-> "increment"]]
       /\ Updated(t, "increment", 1)
       /\ UNCHANGED <<pool, heap, now, impl, issued, scenario, perf>>

\* increment(): value_.fetch_add(1), one atomic step.
IncrementCall(t) ==
    /\ pc[t] = "idle"
    /\ CanUpdate(t)
    /\ counter' = CounterIncrement(counter)
    /\ ret' = [ret EXCEPT ![t] = [kind |-> "increment"]]
    /\ Updated(t, "increment", 1)
    /\ UNCHANGED <<pool, heap, now, impl, pc, op, issued, scenario, perf>>

\* Mutant of add: a negative amount is refused with an error.
AddCallChecked(t, val) ==
    /\ pc[t] = "idle"
    /\ CanUpdate(t)
    /\ counter' = IF val < 0 THEN counter ELSE CounterAdd(counter, val)
    /\ ret' = [ret EXCEPT ![t] = IF val < 0 THEN [kind |-> "error"]
                                  ELSE [kind |-> "add"]]
    /\ Updated(t, "add", IF val < 0 THEN 0 ELSE val)
    /\ UNCHANGED <<pool, heap, now, impl, pc, op, issued, scenario, perf>>

\* add(val): value_.fetch_add(val), one atomic step.
AddCall(t, val) ==
    /\ pc[t] = "idle"
    /\ CanUpdate(t)
    /\ counter' = CounterAdd(counter, val)
    /\ ret' = [ret EXCEPT ![t] = [kind |-> "add"]]
    /\ Updated(t, "add", val)
    /\ UNCHANGED <<pool, heap, now, impl, pc, op, issued, scenario, perf>>

\* Whether thread t may call get(): in the concurrent run a reader thread
\* reads while the workers run, and the main thread reads after the join.
CanGet(t) ==
    \/ scenario = "counter" /\ t = Main
    \/ scenario = "counter_threads" /\ t = Deallocator /\ client.phase = "run"
    \/ scenario = "counter_threads" /\ t = Main /\ client.phase = "joined"

\* get(): value_.load(), one atomic step.
GetCall(t) ==
    /\ pc[t] = "idle"
    /\ CanGet(t)
    /\ ret' = [ret EXCEPT ![t] = [kind |-> "get", val |-> CounterGet(counter)]]
    /\ hist' = [hist EXCEPT !.last = [name |-> "get", thread |-> t]]
    /\ client' = IF scenario = "counter_threads" /\ t = Main
                    /\ client.phase = "joined"
                 THEN [client EXCEPT !.counts = Append(@, CounterGet(counter)),
                                     !.phase = "done"]
                 ELSE client
    /\ UNCHANGED <<pool, heap, now, impl, pc, op, issued, scenario, counter,
                   perf>>

\* reset(): value_.store(0), one atomic step.  In the concurrent run the
\* main thread may reset while the workers run.
CounterResetCall(t) ==
    /\ pc[t] = "idle"
    /\ t = Main
    /\ \/ scenario = "counter" /\ hist.updates < MaxCounterOps
       \/ scenario = "counter_threads" /\ client.phase = "run"
    /\ hist.resets < MaxResets
    /\ counter' = CounterReset(counter)
    /\ ret' = [ret EXCEPT ![t] = [kind |-> "counter_reset"]]
    /\ hist' = [hist EXCEPT !.updates = @ + 1, !.sum = 0, !.resets = @ + 1,
                            !.last = [name |-> "counter_reset", thread |-> t]]
    /\ UNCHANGED <<pool, heap, now, impl, pc, op, issued, client, scenario,
                   perf>>

\* ---- concurrent_performance_counter counter_
\* The durations of controlled_delay, and the arguments of percentile.
Delays == {50, 100, 150}
Percentiles == {0, 50, 100}
\* Every whole p of the range [0, 100] that percentile accepts.
AllPercentiles == 0..100
\* The arguments of percentile in a run.
PercentileArgs(sc) == IF sc = "percentile" THEN AllPercentiles ELSE Percentiles
\* The ways a timed scope is left: at its end, by a return, by an exception.
ExitPaths == {"end", "return", "unwind"}

\* Whether thread t may open a timed scope: the test's thread in the
\* sequential run, a worker with scopes left in the concurrent run.
CanTime(t) ==
    \/ /\ scenario \in {"perf", "percentile"}
       /\ t = Main
       /\ hist.tokens < MaxScopes
    \/ /\ scenario = "perf_threads"
       /\ t \in Workers
       /\ client.phase = "run"
       /\ client.done[t] < ScopesPerThread
    \/ /\ scenario = "perf_shared"
       /\ t = Timer
       /\ client.done[t] < ScopesPerThread

\* auto timer = counter_.time(): the token holds the clock reading.
TimeCall(t) ==
    /\ pc[t] = "idle"
    /\ CanTime(t)
    /\ pc' = [pc EXCEPT ![t] = "scope"]
    /\ op' = [op EXCEPT ![t] = [name |-> "time",
                                id |-> <<t, client.done[t] + 1>>,
                                start |-> now, delayed |-> FALSE]]
    /\ ret' = [ret EXCEPT ![t] = NoRet]
    /\ hist' = [hist EXCEPT !.tokens = @ + 1]
    /\ UNCHANGED <<pool, heap, now, impl, issued, client, scenario, counter,
                   perf>>

\* controlled_delay(d) inside the scope: the clock advances by d.
ControlledDelay(t) ==
    /\ pc[t] = "scope"
    /\ scenario \in {"perf", "percentile"}
    /\ ~op[t].delayed
    /\ \E d \in Delays : now' = now + d
    /\ op' = [op EXCEPT ![t].delayed = TRUE]
    /\ UNCHANGED <<pool, heap, impl, pc, ret, issued, hist, client, scenario,
                   counter, perf>>

\* Mutant of the token: a scope left by an exception does not commit.
ScopeExitNoUnwind(t, path) ==
    /\ pc[t] = "scope"
    /\ pc' = [pc EXCEPT ![t] = IF path = "unwind" THEN "idle"
                                ELSE "commit_lock"]
    /\ op' = [op EXCEPT ![t] = [name |-> "commit", id |-> op[t].id,
                                path |-> path,
                                elapsed |-> now - op[t].start]]
    /\ hist' = [hist EXCEPT !.closed = @ \cup {<<op[t].id,
                                                  now - op[t].start>>}]
    /\ client' = IF path = "unwind" THEN [client EXCEPT !.done[t] = @ + 1]
                 ELSE client
    /\ UNCHANGED <<pool, heap, now, impl, ret, issued, scenario, counter,
                   perf>>

\* The scope ends (by any path): the token is destroyed, which computes the
\* elapsed time and starts the commit.
ScopeExit(t, path) ==
    /\ pc[t] = "scope"
    /\ pc' = [pc EXCEPT ![t] = "commit_lock"]
    /\ op' = [op EXCEPT ![t] = [name |-> "commit", id |-> op[t].id,
                                path |-> path,
                                elapsed |-> now - op[t].start]]
    /\ hist' = [hist EXCEPT !.closed = @ \cup {<<op[t].id,
                                                  now - op[t].start>>}]
    /\ UNCHANGED <<pool, heap, now, impl, ret, issued, client, scenario,
                   counter, perf>>

\* The commit: the sample is appended under the exclusive lock ...
CommitLock(t) ==
    /\ pc[t] = "commit_lock"
    /\ CanLock(perf.lock)
    /\ perf' = [perf EXCEPT !.lock = LockExclusive(@, t)]
    /\ pc' = [pc EXCEPT ![t] = "commit_append"]
    /\ UNCHANGED <<pool, heap, now, impl, op, ret, issued, hist, client,
                   scenario, counter>>

CommitAppend(t) ==
    /\ pc[t] = "commit_append"
    /\ perf' = [PerfAppend(perf, op[t].elapsed) EXCEPT
                  !.lock = UnlockExclusive(@, t)]
    /\ pc' = [pc EXCEPT ![t] = "commit_count"]
    /\ hist' = [hist EXCEPT !.commits =
                    MapPut(@, op[t].id,
                           IF op[t].id \in DOMAIN @ THEN @[op[t].id] + 1
                           ELSE 1)]
    /\ UNCHANGED <<pool, heap, now, impl, op, ret, issued, client, scenario,
                   counter>>

\* Mutant of the commit: the count is loaded, then stored plus one.
CommitCountLoadStore(t) ==
    \/ /\ pc[t] = "commit_count"
       /\ pc' = [pc EXCEPT ![t] = "commit_count_store"]
       /\ op' = [op EXCEPT ![t] =
               [name |-> "commit", id |-> op[t].id, path |-> op[t].path,
                elapsed |-> op[t].elapsed, seen |-> perf.count]]
       /\ UNCHANGED <<pool, heap, now, impl, ret, issued, hist, client,
                      scenario, counter, perf>>
    \/ /\ pc[t] = "commit_count_store"
       /\ perf' = [perf EXCEPT !.count = op[t].seen + 1]
       /\ pc' = [pc EXCEPT ![t] = "commit_total"]
       /\ UNCHANGED <<pool, heap, now, impl, op, ret, issued, hist, client,
                      scenario, counter>>

\* ... and each aggregate is updated by one atomic operation.
CommitAggregate(t, from, to, pf) ==
    /\ pc[t] = from
    /\ perf' = pf
    /\ pc' = [pc EXCEPT ![t] = to]
    /\ UNCHANGED <<pool, heap, now, impl, op, ret, issued, hist, client,
                   scenario, counter>>

CommitCount(t) ==
    CommitAggregate(t, "commit_count", "commit_total", PerfAddCount(perf))
\* Mutant of the commit: the total is loaded, then stored plus the sample.
CommitTotalLoadStore(t) ==
    \/ /\ pc[t] = "commit_total"
       /\ pc' = [pc EXCEPT ![t] = "commit_total_store"]
       /\ op' = [op EXCEPT ![t] =
               [name |-> "commit", id |-> op[t].id, path |-> op[t].path,
                elapsed |-> op[t].elapsed, seen |-> perf.total]]
       /\ UNCHANGED <<pool, heap, now, impl, ret, issued, hist, client,
                      scenario, counter, perf>>
    \/ /\ pc[t] = "commit_total_store"
       /\ perf' = [perf EXCEPT !.total = op[t].seen + op[t].elapsed]
       /\ pc' = [pc EXCEPT ![t] = "commit_min"]
       /\ UNCHANGED <<pool, heap, now, impl, op, ret, issued, hist, client,
                      scenario, counter>>
CommitTotal(t) ==
    CommitAggregate(t, "commit_total", "commit_min",
                    PerfAddTotal(perf, op[t].elapsed))
CommitMin(t) ==
    CommitAggregate(t, "commit_min", "commit_max",
                    PerfUpdateMin(perf, op[t].elapsed))
CommitMax(t) ==
    /\ pc[t] = "commit_max"
    /\ perf' = PerfUpdateMax(perf, op[t].elapsed)
    /\ pc' = [pc EXCEPT ![t] = "idle"]
    /\ op' = [op EXCEPT ![t] = NoOp]
    /\ ret' = [ret EXCEPT ![t] = [kind |-> "commit", id |-> op[t].id,
                                  path |-> op[t].path]]
    /\ client' = [client EXCEPT !.done[t] = @ + 1]
    /\ hist' = [hist EXCEPT !.last = [name |-> "commit", thread |-> t]]
    /\ UNCHANGED <<pool, heap, now, impl, issued, scenario, counter>>

\* Whether thread t may read the counter: the test's thread, in the
\* run of the workers after the join.
CanRead(t) ==
    /\ t = Main
    /\ \/ scenario \in {"perf", "percentile", "perf_shared"}
       \/ scenario = "perf_threads" /\ client.phase = "joined"

\* A reader returns r: in the concurrent run the test notes the count it
\* read after the join.
Read(t, name, v) ==
    /\ pc[t] = "idle"
    /\ CanRead(t)
    /\ ret' = [ret EXCEPT ![t] = [kind |-> name, val |-> v]]
    /\ hist' = [hist EXCEPT !.last = [name |-> name, thread |-> t]]
    /\ client' = IF scenario = "perf_threads" /\ name = "count"
                 THEN [client EXCEPT !.counts = Append(@, v),
                                     !.phase = "done"]
                 ELSE client
    /\ UNCHANGED <<pool, heap, now, impl, pc, op, issued, scenario, counter,
                   perf>>

\* count(), total_time_ns(), min_time_ns(), max_time_ns(),
\* average_time_ns().
CountCall(t) == Read(t, "count", PerfCount(perf))
TotalTimeNsCall(t) ==
    scenario = "perf" /\ Read(t, "total_time_ns", PerfTotalTimeNs(perf))
MinTimeNsCall(t) ==
    scenario = "perf" /\ Read(t, "min_time_ns", PerfMinTimeNs(perf))
MaxTimeNsCall(t) ==
    scenario = "perf" /\ Read(t, "max_time_ns", PerfMaxTimeNs(perf))
AverageTimeNsCall(t) ==
    scenario = "perf" /\ Read(t, "average_time_ns", PerfAverageTimeNs(perf))

\* percentile(p): the samples are copied under the shared lock; the copy is
\* sorted and interpolated after the lock is released.
PercentileCall(t) ==
    /\ pc[t] = "idle"
    /\ CanRead(t)
    /\ scenario \in {"perf", "percentile", "perf_shared"}
    /\ \E p \in PercentileArgs(scenario) :
         op' = [op EXCEPT ![t] = [name |-> "percentile", p |-> p,
                                  copy |-> <<>>]]
    /\ pc' = [pc EXCEPT ![t] = "percentile_lock"]
    /\ ret' = [ret EXCEPT ![t] = NoRet]
    /\ UNCHANGED <<pool, heap, now, impl, issued, hist, client, scenario,
                   counter, perf>>

PercentileLock(t) ==
    /\ pc[t] = "percentile_lock"
    /\ CanLockShared(perf.lock)
    /\ perf' = [perf EXCEPT !.lock = LockShared(@, t)]
    /\ pc' = [pc EXCEPT ![t] = "percentile_copy"]
    /\ UNCHANGED <<pool, heap, now, impl, op, ret, issued, hist, client,
                   scenario, counter>>

\* Mutant of percentile: the retained samples are sorted in place.
PercentileCopySortInPlace(t) ==
    /\ pc[t] = "percentile_copy"
    /\ op' = [op EXCEPT ![t].copy = SortedCopy(perf.samples)]
    /\ perf' = [perf EXCEPT !.samples = SortedCopy(@),
                            !.lock = UnlockShared(@, t)]
    /\ pc' = [pc EXCEPT ![t] = "percentile_sort"]
    /\ UNCHANGED <<pool, heap, now, impl, ret, issued, hist, client,
                   scenario, counter>>
\* Mutant of percentile: the shared lock is kept while the copy is sorted.
PercentileCopyKeepLock(t) ==
    /\ pc[t] = "percentile_copy"
    /\ op' = [op EXCEPT ![t].copy = perf.samples]
    /\ pc' = [pc EXCEPT ![t] = "percentile_sort"]
    /\ UNCHANGED <<pool, heap, now, impl, ret, issued, hist, client,
                   scenario, counter, perf>>
PercentileCopy(t) ==
    /\ pc[t] = "percentile_copy"
    /\ op' = [op EXCEPT ![t].copy = perf.samples]
    /\ perf' = [perf EXCEPT !.lock = UnlockShared(@, t)]
    /\ pc' = [pc EXCEPT ![t] = "percentile_sort"]
    /\ UNCHANGED <<pool, heap, now, impl, ret, issued, hist, client,
                   scenario, counter>>

PercentileSort(t) ==
    /\ pc[t] = "percentile_sort"
    /\ ret' = [ret EXCEPT ![t] = [kind |-> "percentile", p |-> op[t].p,
                                  val |-> PerfPercentile(op[t].copy,
                                                         op[t].p)]]
    /\ op' = [op EXCEPT ![t] = NoOp]
    /\ pc' = [pc EXCEPT ![t] = "idle"]
    /\ hist' = [hist EXCEPT !.last = [name |-> "percentile", thread |-> t]]
    /\ UNCHANGED <<pool, heap, now, impl, issued, client, scenario, counter,
                   perf>>

\* reset(): the samples and the aggregates are cleared under the exclusive
\* lock.
PerfResetCall(t) ==
    /\ pc[t] = "idle"
    /\ CanRead(t)
    /\ scenario \in {"perf", "perf_shared"}
    /\ hist.resets < MaxResets
    /\ op' = [op EXCEPT ![t] = [name |-> "perf_reset"]]
    /\ pc' = [pc EXCEPT ![t] = "perf_reset_lock"]
    /\ ret' = [ret EXCEPT ![t] = NoRet]
    /\ hist' = [hist EXCEPT !.resets = @ + 1]
    /\ UNCHANGED <<pool, heap, now, impl, issued, client, scenario, counter,
                   perf>>

PerfResetLock(t) ==
    /\ pc[t] = "perf_reset_lock"
    /\ CanLock(perf.lock)
    /\ perf' = [perf EXCEPT !.lock = LockExclusive(@, t)]
    /\ pc' = [pc EXCEPT ![t] = "perf_reset_body"]
    /\ UNCHANGED <<pool, heap, now, impl, op, ret, issued, hist, client,
                   scenario, counter>>

PerfResetBody(t) ==
    /\ pc[t] = "perf_reset_body"
    /\ perf' = [PerfReset(perf) EXCEPT !.lock = UnlockExclusive(@, t)]
    /\ op' = [op EXCEPT ![t] = NoOp]
    /\ pc' = [pc EXCEPT ![t] = "idle"]
    /\ ret' = [ret EXCEPT ![t] = [kind |-> "perf_reset"]]
    /\ hist' = [hist EXCEPT !.closed = {},
                            !.last = [name |-> "perf_reset", thread |-> t]]
    /\ UNCHANGED <<pool, heap, now, impl, issued, client, scenario, counter>>

\* ---- the clock advances
Tick ==
    /\ now < MaxTime
    /\ now' = now + 1
    /\ UNCHANGED <<pool, heap, impl, pc, op, ret, issued, hist, client,
                   scenario, counter, perf>>

\* ------------------------------------------------------- specifications
InitCommon ==
    /\ pool = [p \in PoolIds |-> NewPool(InitialSize)]
    /\ heap = [live |-> {}, brk |-> HeapBase]
    /\ now = 0
    /\ impl \in {[zero_size |-> z] : z \in {0, 1}}
    /\ pc = [t \in Threads |-> "idle"]
    /\ op = [t \in Threads |-> NoOp]
    /\ ret = [t \in Threads |-> NoRet]
    /\ issued = [p \in PoolIds |-> {}]
    /\ hist = [allocs |-> 0, resets |-> 0, formats |-> 0,
               outstanding |-> [p \in PoolIds |-> {}],
               freed |-> [p \in PoolIds |-> {}],
               completed |-> [p \in PoolIds |-> [calls |-> 0, bytes |-> 0]],
               formatted |-> [p \in PoolIds |-> 0],
               last |-> [name |-> "none"],
               updates |-> 0, sum |-> 0, added |-> 0, increments |-> 0,
               tokens |-> 0, closed |-> {}, commits |-> EmptyMap]
    /\ client = [ptrs |-> [t \in Threads |-> <<>>], stop |-> FALSE,
                 phase |-> "run", counts |-> <<>>,
                 total_allocations |-> 0, total_deallocations |-> 0,
                 done |-> [t \in Threads |-> 0], old |-> {}]
    /\ counter = CounterInit
    /\ perf = NewPerf

\* The state after construction in the run named sc.
InitFor(sc) == InitCommon /\ scenario = sc

\* The client calls the operations of one pool object in any order, one
\* call at a time.
Next ==
    \/ AllocateCall(Main)
    \/ AllocateLock(Main)
    \/ AllocateBody(Main)
    \/ DeallocateCall(Main)
    \/ DeallocateLock(Main)
    \/ DeallocateBody(Main)
    \/ ResetCall(Main)
    \/ ResetLock(Main)
    \/ ResetBody(Main)
    \/ ActiveAllocationCountCall(Main)
    \/ ActiveAllocationCountLock(Main)
    \/ ActiveAllocationCountBody(Main)
    \/ HasMemoryLeaksCall(Main)
    \/ HasMemoryLeaksLock(Main)
    \/ HasMemoryLeaksBody(Main)
    \/ GetLeakReportCall(Main)
    \/ GetLeakReportLock(Main)
    \/ GetLeakReportBody(Main)
    \/ Tick

Spec == InitFor("sequential") /\ [][Next]_vars

\* ThreadSafetyAllocations: every worker allocates AllocsPerThread times;
\* the main thread joins them, reads the count, deallocates every handle and
\* reads the count again.
NextThreads ==
    \/ \E t \in Workers : WorkerAllocateCall(t)
    \/ \E t \in Workers : AllocateLock(t)
    \/ \E t \in Workers : AllocateBody(t)
    \/ MainJoin
    \/ MainCountCall(Main)
    \/ ActiveAllocationCountLock(Main)
    \/ ActiveAllocationCountBody(Main)
    \/ MainDeallocateCall(Main)
    \/ DeallocateLock(Main)
    \/ DeallocateBody(Main)

SpecThreads == InitFor("threads") /\ [][NextThreads]_vars

\* ThreadSafetyConcurrentAllocDealloc: allocator threads allocate while the
\* deallocator thread deallocates handles already returned; after the stop
\* and the join the main thread deallocates the rest and reads the count.
NextAllocDealloc ==
    \/ \E t \in Workers : AllocatorAllocateCall(t)
    \/ \E t \in Workers : AllocateLock(t)
    \/ \E t \in Workers : AllocateBody(t)
    \/ DeallocatorDeallocateCall(Deallocator)
    \/ \E t \in {Main, Deallocator} : DeallocateLock(t)
    \/ \E t \in {Main, Deallocator} : DeallocateBody(t)
    \/ MainStop
    \/ MainJoin
    \/ MainDeallocateCall(Main)
    \/ MainCountCall(Main)
    \/ ActiveAllocationCountLock(Main)
    \/ ActiveAllocationCountBody(Main)

SpecAllocDealloc == InitFor("alloc_dealloc") /\ [][NextAllocDealloc]_vars

\* MemoryPoolResetBehavior: a thread formats values, reads the count of its
\* tl_pool and resets it.
NextFormat ==
    \/ FormatValue(Main)
    \/ ActiveAllocationCountCall(Main)
    \/ ActiveAllocationCountLock(Main)
    \/ ActiveAllocationCountBody(Main)
    \/ ResetCall(Main)
    \/ ResetLock(Main)
    \/ ResetBody(Main)

SpecFormat == InitFor("tl_pool") /\ [][NextFormat]_vars

\* LargeAllocations: the client's requests are larger than what is left of
\* the current chunk, or than the initial size.
NextLarge ==
    \/ AllocateCall(Main)
    \/ AllocateLock(Main)
    \/ AllocateBody(Main)
    \/ DeallocateCall(Main)
    \/ DeallocateLock(Main)
    \/ DeallocateBody(Main)
    \/ ActiveAllocationCountCall(Main)
    \/ ActiveAllocationCountLock(Main)
    \/ ActiveAllocationCountBody(Main)
    \/ ResetCall(Main)
    \/ ResetLock(Main)
    \/ ResetBody(Main)

SpecLarge == InitFor("large") /\ [][NextLarge]_vars

\* The client allocates and deallocates, resets the pool, and goes on.
NextReset ==
    \/ AllocateCall(Main)
    \/ AllocateLock(Main)
    \/ AllocateBody(Main)
    \/ DeallocateCall(Main)
    \/ DeallocateLock(Main)
    \/ DeallocateBody(Main)
    \/ ResetCall(Main)
    \/ ResetLock(Main)
    \/ ResetBody(Main)

SpecReset == InitFor("reset") /\ [][NextReset]_vars

\* The client allocates and deallocates while the clock runs, resets the
\* pool, and goes on with the handles it was given before the reset.
NextStale ==
    \/ AllocateCall(Main)
    \/ AllocateLock(Main)
    \/ AllocateBody(Main)
    \/ DeallocateCall(Main)
    \/ DeallocateLock(Main)
    \/ DeallocateBody(Main)
    \/ ResetCall(Main)
    \/ ResetLock(Main)
    \/ ResetBody(Main)
    \/ Tick

SpecStale == InitFor("stale") /\ [][NextStale]_vars

\* AlignmentRequirements: the client allocates an over-aligned struct
\* before and after allocations of other types, and deallocates.
NextAligned ==
    \/ AllocateCall(Main)
    \/ AllocateLock(Main)
    \/ AllocateBody(Main)
    \/ DeallocateCall(Main)
    \/ DeallocateLock(Main)
    \/ DeallocateBody(Main)

SpecAligned == InitFor("aligned") /\ [][NextAligned]_vars

\* Every owner thread calls the operations of its own tl_pool in any order
\* while the other owners do the same.
NextArenas ==
    \/ \E t \in Owners : AllocateCall(t)
    \/ \E t \in Owners : AllocateLock(t)
    \/ \E t \in Owners : AllocateBody(t)
    \/ \E t \in Owners : DeallocateCall(t)
    \/ \E t \in Owners : DeallocateLock(t)
    \/ \E t \in Owners : DeallocateBody(t)
    \/ \E t \in Owners : ResetCall(t)
    \/ \E t \in Owners : ResetLock(t)
    \/ \E t \in Owners : ResetBody(t)
    \/ \E t \in Owners : ActiveAllocationCountCall(t)
    \/ \E t \in Owners : ActiveAllocationCountLock(t)
    \/ \E t \in Owners : ActiveAllocationCountBody(t)

SpecArenas == InitFor("arenas") /\ [][NextArenas]_vars

\* Three threads use one pool at the same time: one allocates and
\* deallocates, one resets and reads the count, one asks for leaks.
NextShared ==
    \/ AllocateCall(Allocator)
    \/ AllocateLock(Allocator)
    \/ AllocateBody(Allocator)
    \/ DeallocateCall(Allocator)
    \/ DeallocateLock(Allocator)
    \/ DeallocateBody(Allocator)
    \/ ResetCall(Resetter)
    \/ ResetLock(Resetter)
    \/ ResetBody(Resetter)
    \/ ActiveAllocationCountCall(Resetter)
    \/ ActiveAllocationCountLock(Resetter)
    \/ ActiveAllocationCountBody(Resetter)
    \/ HasMemoryLeaksCall(Observer)
    \/ HasMemoryLeaksLock(Observer)
    \/ HasMemoryLeaksBody(Observer)
    \/ GetLeakReportCall(Observer)
    \/ GetLeakReportLock(Observer)
    \/ GetLeakReportBody(Observer)

SpecShared == InitFor("shared") /\ [][NextShared]_vars

\* The steps of thread t that take the mutex, and the steps it takes while
\* it holds the mutex.
LockStep(t) ==
    \/ AllocateLock(t)
    \/ DeallocateLock(t)
    \/ ResetLock(t)
    \/ ActiveAllocationCountLock(t)
    \/ HasMemoryLeaksLock(t)
    \/ GetLeakReportLock(t)
BodyStep(t) ==
    \/ AllocateBody(t)
    \/ DeallocateBody(t)
    \/ ResetBody(t)
    \/ ActiveAllocationCountBody(t)
    \/ HasMemoryLeaksBody(t)
    \/ GetLeakReportBody(t)

\* Fair scheduling: a thread that holds the mutex goes on to finish its
\* call, and a thread waiting for the mutex gets it if it is again and
\* again free for it.  std::shared_mutex promises no order among waiting
\* threads, so nothing more is assumed of it.
SpecSharedFair ==
    /\ InitFor("shared")
    /\ [][NextShared]_vars
    /\ \A t \in Sharers : WF_vars(BodyStep(t))
    /\ \A t \in Sharers : SF_vars(LockStep(t))

\* The test's thread calls the counter's operations in any order.
NextCounter ==
    \/ IncrementCall(Main)
    \/ \E v \in AddValues : AddCall(Main, v)
    \/ GetCall(Main)
    \/ CounterResetCall(Main)

SpecCounter == InitFor("counter") /\ [][NextCounter]_vars

\* ThreadSafetyIncrement / ThreadSafetyAdd / ConcurrentReadWrite: every
\* worker makes CounterOpsPerThread calls of increment or add while a reader
\* thread reads; the main thread joins the workers and reads the counter.
NextCounterThreads ==
    \/ \E t \in Workers : IncrementCall(t)
    \/ \E t \in Workers : \E v \in WorkerAddValues : AddCall(t, v)
    \/ \E t \in {Main, Deallocator} : GetCall(t)
    \/ CounterResetCall(Main)
    \/ MainJoin

SpecCounterThreads == InitFor("counter_threads") /\ [][NextCounterThreads]_vars

\* The test's thread opens timed scopes one after the other, reads the
\* counter and resets it, in any order.
NextPerf ==
    \/ TimeCall(Main)
    \/ ControlledDelay(Main)
    \/ \E path \in ExitPaths : ScopeExit(Main, path)
    \/ CommitLock(Main)
    \/ CommitAppend(Main)
    \/ CommitCount(Main)
    \/ CommitTotal(Main)
    \/ CommitMin(Main)
    \/ CommitMax(Main)
    \/ CountCall(Main)
    \/ TotalTimeNsCall(Main)
    \/ MinTimeNsCall(Main)
    \/ MaxTimeNsCall(Main)
    \/ AverageTimeNsCall(Main)
    \/ PercentileCall(Main)
    \/ PercentileLock(Main)
    \/ PercentileCopy(Main)
    \/ PercentileSort(Main)
    \/ PerfResetCall(Main)
    \/ PerfResetLock(Main)
    \/ PerfResetBody(Main)

SpecPerf == InitFor("perf") /\ [][NextPerf]_vars

\* Every worker completes ScopesPerThread timed scopes on the same counter
\* while the clock runs; the main thread joins them and reads the count.
NextPerfThreads ==
    \/ \E t \in Workers : TimeCall(t)
    \/ \E t \in Workers : ScopeExit(t, "end")
    \/ \E t \in Workers : CommitLock(t)
    \/ \E t \in Workers : CommitAppend(t)
    \/ \E t \in Workers : CommitCount(t)
    \/ \E t \in Workers : CommitTotal(t)
    \/ \E t \in Workers : CommitMin(t)
    \/ \E t \in Workers : CommitMax(t)
    \/ Tick
    \/ MainJoin
    \/ CountCall(Main)

SpecPerfThreads == InitFor("perf_threads") /\ [][NextPerfThreads]_vars

\* One thread completes timed scopes while the clock runs and the test's
\* thread reads the count, asks for percentiles and resets the counter.
NextPerfShared ==
    \/ TimeCall(Timer)
    \/ ScopeExit(Timer, "end")
    \/ CommitLock(Timer)
    \/ CommitAppend(Timer)
    \/ CommitCount(Timer)
    \/ CommitTotal(Timer)
    \/ CommitMin(Timer)
    \/ CommitMax(Timer)
    \/ Tick
    \/ CountCall(Main)
    \/ PercentileCall(Main)
    \/ PercentileLock(Main)
    \/ PercentileCopy(Main)
    \/ PercentileSort(Main)
    \/ PerfResetCall(Main)
    \/ PerfResetLock(Main)
    \/ PerfResetBody(Main)

SpecPerfShared == InitFor("perf_shared") /\ [][NextPerfShared]_vars

\* The test's thread records up to MaxScopes samples one after the other
\* and asks for any percentile of the range between them.
NextPercentile ==
    \/ TimeCall(Main)
    \/ ControlledDelay(Main)
    \/ ScopeExit(Main, "end")
    \/ CommitLock(Main)
    \/ CommitAppend(Main)
    \/ CommitCount(Main)
    \/ CommitTotal(Main)
    \/ CommitMin(Main)
    \/ CommitMax(Main)
    \/ PercentileCall(Main)
    \/ PercentileLock(Main)
    \/ PercentileCopy(Main)
    \/ PercentileSort(Main)

SpecPercentile == InitFor("percentile") /\ [][NextPercentile]_vars

\* ------------------------------------------------------------- properties
\* Thread t completes a call of deallocate in this step.
DeallocateStep(t) == pc[t] = "deallocate_body" /\ pc'[t] = "idle"
\* Thread t completes a call of reset on pool p in this step.
ResetStep(t, p) ==
    pc[t] = "reset_body" /\ pc'[t] = "idle" /\ op[t].pool = p
\* The members of pool p other than its mutex.
Members(pl) ==
    <<pl.buffer_, pl.allocation_count_, pl.total_allocated_,
      pl.active_allocations_, pl.headers>>
Range(f) == {f[i] : i \in DOMAIN f}

\* C1: between resets, the size of the tracking table (and every value
\* active_allocation_count() returns) is the number of allocate calls whose
\* handle has not yet been passed to a deallocate call that found it live.
C1_CountIsOutstandingCalls ==
    /\ \A p \in PoolIds :
         ActiveAllocationCountCode(pool[p]) =
             Cardinality(hist.outstanding[p])
    /\ \A t \in Threads :
         ret[t].kind = "active_allocation_count" =>
             ret[t].val = Cardinality(hist.outstanding[ret[t].pool])
\* Two allocate calls were made, one handle was deallocated, and the count
\* read afterwards is 1.
C1_Witness ==
    /\ ret[Main].kind = "active_allocation_count"
    /\ ret[Main].val = 1
    /\ hist.allocs = 2
    /\ hist.freed[SharedPool] # {}
    /\ hist.resets = 0

\* C2: a deallocate of a handle that a deallocate call already found live
\* since the last reset changes neither the tracking table nor any other
\* member of the pool.
C2_SecondDeallocateChangesNothing ==
    [][\A t \in Threads :
         (DeallocateStep(t) /\ op[t].ptr \in hist.freed[op[t].pool]) =>
             Members(pool'[op[t].pool]) = Members(pool[op[t].pool])]_vars
\* A handle was deallocated a second time while another allocation is live.
C2_Witness ==
    /\ hist.last.name = "deallocate"
    /\ hist.last.again
    /\ ~hist.last.found
    /\ pool[SharedPool].active_allocations_ # EmptyMap

\* C3: deallocate of an address the pool never returned completes without
\* an error and changes no member of the pool: the table, the records and
\* both lifetime counters stay as they were.
C3_ForeignDeallocateIsNoOp ==
    [][\A t \in Threads :
         (DeallocateStep(t) /\ op[t].ptr \notin issued[op[t].pool]) =>
             /\ Members(pool'[op[t].pool]) = Members(pool[op[t].pool])
             /\ ret'[t].kind = "deallocate"]_vars
\* The address of a local variable was deallocated while an allocation is
\* live.
C3_Witness ==
    /\ hist.last.name = "deallocate"
    /\ hist.last.ptr = StackVarAddr
    /\ pool[SharedPool].active_allocations_ # EmptyMap
    /\ pool[SharedPool].allocation_count_ > 0

\* C4: right after reset() returned, active_allocation_count() is 0,
\* has_memory_leaks() is false and get_leak_report() is empty, both as the
\* queries compute them from the state and as any query made then returned.
C4_AfterResetEmpty ==
    \A p \in PoolIds :
      (hist.last.name = "reset" /\ hist.last.pool = p
         /\ \A t \in Threads : pc[t] = "idle") =>
        /\ ActiveAllocationCountCode(pool[p]) = 0
        /\ HasMemoryLeaksCode(pool[p]) = FALSE
        /\ GetLeakReportCode(pool[p], now) = <<>>
        /\ \A t \in Threads :
             /\ ret[t].kind = "active_allocation_count" => ret[t].val = 0
             /\ ret[t].kind = "has_memory_leaks" => ret[t].val = FALSE
             /\ ret[t].kind = "get_leak_report" => ret[t].val = <<>>
\* reset() returned on a pool that held two live allocations.
C4_Witness ==
    /\ ret[Main].kind = "reset"
    /\ hist.last.name = "reset"
    /\ hist.allocs = 2
    /\ issued[SharedPool] # {}
    /\ Cardinality(issued[SharedPool]) = 2

\* C8: the value has_memory_leaks() returns is true exactly when the
\* tracking table is non-empty, that is when active_allocation_count() > 0.
C8_LeaksIffTableNonEmpty ==
    \A t \in Threads :
      ret[t].kind = "has_memory_leaks" =>
        /\ ret[t].val = (DOMAIN pool[ret[t].pool].active_allocations_ # {})
        /\ ret[t].val = (ActiveAllocationCountCode(pool[ret[t].pool]) > 0)
\* has_memory_leaks() returned false after an allocation was deallocated.
C8_Witness ==
    /\ ret[Main].kind = "has_memory_leaks"
    /\ ret[Main].val = FALSE
    /\ hist.freed[SharedPool] # {}
    /\ pool[SharedPool].allocation_count_ > 0

\* C9: a leak report has exactly one entry per live record, its handles are
\* the keys of the tracking table, and each age is the time of the report
\* minus the record's allocation time (positive when allocated earlier).
C9_ReportIsSnapshot ==
    \A t \in Threads :
      ret[t].kind = "get_leak_report" =>
        LET pl == pool[ret[t].pool]
            rep == ret[t].val
        IN  /\ Len(rep) = Cardinality(DOMAIN pl.active_allocations_)
            /\ {e[1] : e \in Range(rep)} = DOMAIN pl.active_allocations_
            /\ \A e \in Range(rep) :
                 LET at == pl.headers[pl.active_allocations_[e[1]]]
                               .allocation_time
                 IN  /\ e[2] = DurationCast(ret[t].at - at)
                     /\ at < ret[t].at => e[2].num > 0
\* A report with two entries, one of them of an allocation made earlier
\* than the report.
C9_Witness ==
    /\ ret[Main].kind = "get_leak_report"
    /\ Len(ret[Main].val) = 2
    /\ \E e \in Range(ret[Main].val) : e[2].num > 0

\* C10: a deallocate call, whether it finds the handle or not, leaves both
\* lifetime counters as they were; and no step other than a reset of the
\* pool decreases either counter.
C10_LifetimeCountersMonotonic ==
    [][/\ \A t \in Threads :
            DeallocateStep(t) =>
              /\ pool'[op[t].pool].allocation_count_
                    = pool[op[t].pool].allocation_count_
              /\ pool'[op[t].pool].total_allocated_
                    = pool[op[t].pool].total_allocated_
       /\ \A p \in PoolIds :
            (\/ pool'[p].allocation_count_ < pool[p].allocation_count_
             \/ pool'[p].total_allocated_ < pool[p].total_allocated_) =>
              \E t \in Threads : ResetStep(t, p)]_vars
\* A deallocate call found its handle live and the counters still count it.
C10_Witness ==
    /\ hist.last.name = "deallocate"
    /\ hist.last.found
    /\ pool[SharedPool].active_allocations_ = EmptyMap
    /\ pool[SharedPool].allocation_count_ > 0
    /\ pool[SharedPool].total_allocated_ > 0

\* C5: after the join of N workers that each made M allocate calls, the
\* count the main thread reads is N * M, and the count it reads after it
\* has deallocated every handle once is 0, whatever the interleaving.
C5_ThreadsCountAll ==
    /\ client.phase \in {"cleanup", "done"} =>
         client.counts[1] = Cardinality(Workers) * AllocsPerThread
    /\ client.phase = "done" => client.counts[2] = 0
\* The run is over: every worker made its calls, each call returned a
\* handle of its own, and both counts were read.
C5_Witness ==
    /\ client.phase = "done"
    /\ Len(client.counts) = 2
    /\ client.total_allocations = Cardinality(Workers) * AllocsPerThread
    /\ Cardinality(issued[SharedPool]) = client.total_allocations

\* C6: when the allocators and the deallocator have stopped and the main
\* thread has deallocated each remaining handle once, the count is 0.
C6_AllocDeallocEndsEmpty ==
    client.phase = "done" =>
      /\ client.counts[Len(client.counts)] = 0
      /\ pool[SharedPool].active_allocations_ = EmptyMap
\* The run is over; the deallocator deallocated a handle while the
\* allocators ran, and the main thread deallocated another after the join.
C6_Witness ==
    /\ client.phase = "done"
    /\ client.total_deallocations > 0
    /\ client.total_allocations > client.total_deallocations

\* C7: once format_value has produced strings on a thread, the count of
\* that thread's tl_pool is greater than 0 (and 0 again after a reset).
C7_FormattedBuffersAreTracked ==
    \A t \in Threads :
      (ret[t].kind = "active_allocation_count" /\ ret[t].pool = t) =>
        IF hist.formatted[t] > 0 THEN ret[t].val > 0 ELSE ret[t].val = 0

ThreadStep(t) == pc'[t] # pc[t] \/ ret'[t] # ret[t] \/ op'[t] # op[t]

\* C12: every thread works on one pool, its own tl_pool, which is in the
\* state of a new pool until the thread first uses it; and a step of a call
\* of thread a (allocate, deallocate, reset or a query) changes nothing of
\* the tl_pool of another thread b: not its table, not its records, not
\* the count active_allocation_count() computes from it.
C12_ArenasIndependent ==
    [][\A a \in Owners :
         /\ (pc[a] = "idle" /\ ret[a] = NoRet) =>
               pool[a] = NewPool(InitialSize)
         /\ op[a] # NoOp => op[a].pool = a
         /\ ThreadStep(a) =>
               \A b \in Owners \ {a} :
                 /\ pool'[b] = pool[b]
                 /\ ActiveAllocationCountCode(pool'[b]) =
                        ActiveAllocationCountCode(pool[b])]_vars
\* Both threads hold a live allocation in their own pool, and one of them
\* has reset its pool before.
C12_Witness ==
    /\ \A t \in Owners : pool[t].active_allocations_ # EmptyMap
    /\ hist.resets > 0
    /\ pool[SharedPool] = NewPool(InitialSize)

\* C13: the counter starts at 0, and after any sequence of increment, add
\* and reset calls its value, and what a get() made then returns, is the sum
\* of 1 per increment and v per add(v) (v may be negative) made since the
\* most recent reset, or since construction.
C13_CounterIsSumSinceReset ==
    /\ hist.updates = 0 => CounterGet(counter) = 0
    /\ CounterGet(counter) = hist.sum
    /\ hist.last.name = "get" => ret[hist.last.thread].val = hist.sum
\* get() returned -3 after add(100), reset() and add(-3).
C13_Witness ==
    /\ hist.last.name = "get"
    /\ ret[Main].val = 0 - 3
    /\ hist.resets = 1
    /\ hist.added = 97

\* C14: when the workers have made all their increment and add calls, with
\* no reset, the value the main thread reads after the join is the sum of
\* all the amounts: N * M when each of N workers made M increments.
C14_NoLostUpdate ==
    (client.phase = "done" /\ hist.resets = 0) =>
      /\ client.counts[1] = hist.added
      /\ hist.increments = Cardinality(Workers) * CounterOpsPerThread =>
            client.counts[1] = Cardinality(Workers) * CounterOpsPerThread
\* The run is over, every call was an increment, and the reader read the
\* counter while the workers ran.
C14_Witness ==
    /\ client.phase = "done"
    /\ hist.resets = 0
    /\ hist.increments = Cardinality(Workers) * CounterOpsPerThread
    /\ ret[Deallocator].kind = "get"
    /\ ret[Deallocator].val = 1

\* C15: every operation of the counter can be called by every thread in
\* every state, whatever the other threads are doing, and a call is one
\* step: the caller is not left inside the call, and the outcome is the
\* operation's result, never an error.
C15_CounterOpsNeverWait ==
    [][\A t \in Threads :
         /\ CanUpdate(t) =>
               /\ ENABLED IncrementCall(t)
               /\ \A v \in AddValues : ENABLED AddCall(t, v)
         /\ CanGet(t) => ENABLED GetCall(t)
         /\ (t = Main /\ client.phase = "run" /\ hist.resets < MaxResets) =>
               ENABLED CounterResetCall(t)
         /\ ThreadStep(t) =>
               /\ pc'[t] = "idle"
               /\ ret'[t].kind \in {"increment", "add", "get",
                                    "counter_reset"}]_vars
\* Each of the four operations was the last call of a different thread.
C15_Witness ==
    /\ ret[Main].kind = "counter_reset"
    /\ ret[Deallocator].kind = "get"
    /\ \E t \in Workers : ret[t].kind = "increment"
    /\ \E t \in Workers : ret[t].kind = "add"

\* Thread t is inside the commit of a sample.
Committing(t) ==
    pc[t] \in {"commit_lock", "commit_append", "commit_count",
               "commit_total", "commit_min", "commit_max"}
\* The durations of the scopes closed since the last reset of the counter.
RECURSIVE SumOf(_)
SumOf(S) ==
    IF S = {} THEN 0
    ELSE LET c == CHOOSE x \in S : TRUE IN c[2] + SumOf(S \ {c})
Durations == {c[2] : c \in hist.closed}

\* C16: a token commits exactly once.  No token is committed twice, every
\* commit belongs to a token obtained from time(), and when no commit is in
\* progress every scope that ended, by whatever path, has appended one
\* sample and added 1 to count().
C16_TokenCommitsOnce ==
    /\ \A id \in DOMAIN hist.commits : hist.commits[id] = 1
    /\ DOMAIN hist.commits \subseteq {<<Main, k>> : k \in 1..hist.tokens}
    /\ ~Committing(Main) =>
         /\ DOMAIN hist.commits = {<<Main, k>> : k \in 1..client.done[Main]}
         /\ client.done[Main] =
                hist.tokens - (IF pc[Main] = "scope" THEN 1 ELSE 0)
         /\ Len(perf.samples) = Cardinality(hist.closed)
         /\ PerfCount(perf) = Cardinality(hist.closed)
\* Two scopes have ended, the second one by an exception, and two samples
\* are retained.
C16_Witness ==
    /\ ret[Main].kind = "commit"
    /\ ret[Main].path = "unwind"
    /\ hist.tokens = 2
    /\ Len(perf.samples) = 2
    /\ hist.resets = 0

\* C17: after the join of N workers that each completed M timed scopes on
\* the same counter, with no reset, count() is N * M.
C17_CountIsAllScopes ==
    client.phase = "done" =>
      client.counts[1] = Cardinality(Workers) * ScopesPerThread
\* The run is over and the samples of the two workers arrived interleaved,
\* with different durations.
C17_Witness ==
    /\ client.phase = "done"
    /\ Len(perf.samples) = Cardinality(Workers) * ScopesPerThread
    /\ perf.min < perf.max
    /\ \E w \in Workers : hist.commits[<<w, 2>>] = 1

\* C18: with no commit in progress, count() is the number of samples
\* committed since the last reset, total_time_ns() their sum, min_time_ns()
\* the smallest, max_time_ns() the largest, and average_time_ns() is
\* total / count; after exactly one sample d, min = max = total = d and the
\* average is d.  The values the readers return are these values.
C18_AggregatesOfSamples ==
    (~Committing(Main) /\ hist.closed # {}) =>
      LET n == Cardinality(hist.closed)
          avg == PerfAverageTimeNs(perf)
          r == ret[Main]
      IN  /\ PerfCount(perf) = n
          /\ PerfTotalTimeNs(perf) = SumOf(hist.closed)
          /\ PerfMinTimeNs(perf) \in Durations
          /\ \A d \in Durations : PerfMinTimeNs(perf) <= d
          /\ PerfMaxTimeNs(perf) \in Durations
          /\ \A d \in Durations : d <= PerfMaxTimeNs(perf)
          /\ avg.num * n = SumOf(hist.closed) * avg.den
          /\ n = 1 =>
                \A d \in Durations :
                  /\ PerfMinTimeNs(perf) = d
                  /\ PerfMaxTimeNs(perf) = d
                  /\ PerfTotalTimeNs(perf) = d
                  /\ avg.num = d * avg.den
          /\ r.kind = "count" => r.val = n
          /\ r.kind = "total_time_ns" => r.val = SumOf(hist.closed)
          /\ r.kind = "min_time_ns" =>
                r.val \in Durations /\ \A d \in Durations : r.val <= d
          /\ r.kind = "max_time_ns" =>
                r.val \in Durations /\ \A d \in Durations : d <= r.val
          /\ r.kind = "average_time_ns" =>
                r.val.num * n = SumOf(hist.closed) * r.val.den
\* min_time_ns() returned 50 after the samples 100, 50 and 150.
C18_Witness ==
    /\ ret[Main].kind = "min_time_ns"
    /\ ret[Main].val = 50
    /\ perf.samples = <<100, 50, 150>>
    /\ PerfAverageTimeNs(perf) = [num |-> 300, den |-> 3]

\* C19: on a counter with no sample every reader returns zero: count(),
\* total_time_ns(), min_time_ns() and max_time_ns() are 0,
\* average_time_ns() is 0.0 and percentile(p) is 0 for every p in [0, 100];
\* and these are the values a reader called then has returned.
C19_EmptyReadersReturnZero ==
    (perf.samples = <<>> /\ hist.closed = {}) =>
      /\ PerfCount(perf) = 0
      /\ PerfTotalTimeNs(perf) = 0
      /\ PerfMinTimeNs(perf) = 0
      /\ PerfMaxTimeNs(perf) = 0
      /\ PerfAverageTimeNs(perf).num = 0
      /\ PerfAverageTimeNs(perf).den # 0
      /\ \A p \in 0..100 : PerfPercentile(perf.samples, p) = 0
      /\ ret[Main].kind \in {"count", "total_time_ns", "min_time_ns",
                              "max_time_ns", "percentile"} =>
            ret[Main].val = 0
      /\ ret[Main].kind = "average_time_ns" =>
            ret[Main].val.num = 0 /\ ret[Main].val.den # 0
\* percentile(50) returned 0 on a counter that never had a sample.
C19_Witness ==
    /\ ret[Main].kind = "percentile"
    /\ ret[Main].p = 50
    /\ ret[Main].val = 0
    /\ hist.tokens = 0
    /\ hist.resets = 0

\* C20: when reset() has returned on a counter that held samples, the
\* counter is empty: until the next scope ends, count(), total_time_ns(),
\* min_time_ns(), max_time_ns() and percentile(50) are 0 and
\* average_time_ns() is 0.0; and the first sample d committed after the
\* reset is aggregated as the first sample: count() = 1 and
\* min = max = total = d.
C20_ResetEmptiesCounter ==
    (hist.resets > 0 /\ ~Committing(Main)
       /\ pc[Main] \notin {"perf_reset_lock", "perf_reset_body"}) =>
      /\ hist.closed = {} =>
            /\ [perf EXCEPT !.lock = NewPerf.lock] = NewPerf
            /\ PerfCount(perf) = 0
            /\ PerfTotalTimeNs(perf) = 0
            /\ PerfMinTimeNs(perf) = 0
            /\ PerfMaxTimeNs(perf) = 0
            /\ PerfPercentile(perf.samples, 50) = 0
            /\ PerfAverageTimeNs(perf).num = 0
      /\ \A c \in hist.closed :
            hist.closed = {c} =>
              /\ PerfCount(perf) = 1
              /\ perf.samples = <<c[2]>>
              /\ PerfMinTimeNs(perf) = c[2]
              /\ PerfMaxTimeNs(perf) = c[2]
              /\ PerfTotalTimeNs(perf) = c[2]
\* After the samples 50 and 150 the counter was reset, and then a sample of
\* 100 was committed: the minimum read is 100.
C20_Witness ==
    /\ hist.resets = 1
    /\ hist.tokens = 3
    /\ perf.samples = <<100>>
    /\ now = 300
    /\ ret[Main].kind = "min_time_ns"
    /\ ret[Main].val = 100

C22_PercentileMonotone ==
    \A t \in Threads :
      (ret[t].kind = "percentile" /\ perf.samples # <<>>) =>
        /\ \A p2 \in ret[t].p..100 :
             ret[t].val <= PerfPercentile(perf.samples, p2)
        /\ \A p1 \in 0..ret[t].p :
             PerfPercentile(perf.samples, p1) <= ret[t].val
\* percentile(50) returned 100 for the samples 150, 0, 100, whose
\* percentiles at 0 and 100 are 0 and 150.
C22_Witness ==
    /\ ret[Main].kind = "percentile"
    /\ ret[Main].p = 50
    /\ ret[Main].val = 100
    /\ perf.samples = <<150, 0, 100>>
    /\ PerfPercentile(perf.samples, 0) = 0
    /\ PerfPercentile(perf.samples, 100) = 150

\* Thread t is inside a call of percentile; it returns in this step.
InPercentile(t) ==
    pc[t] \in {"percentile_lock", "percentile_copy", "percentile_sort"}
PercentileStep(t) == pc[t] = "percentile_sort" /\ pc'[t] = "idle"
\* The order statistic of rank k (from 0) of the samples sq: the value
\* with at most k samples below it and more than k samples not above it.
OrderStatistic(sq, k) ==
    CHOOSE v \in Range(sq) :
      /\ Cardinality({i \in DOMAIN sq : sq[i] < v}) <= k
      /\ k < Cardinality({i \in DOMAIN sq : sq[i] <= v})
\* v is the linear interpolation, in whole nanoseconds, between the two
\* adjacent order statistics of sq that bound the fractional rank
\* p * (n - 1) / 100.
Interpolates(sq, p, v) ==
    LET n == Len(sq)
        rank100 == p * (n - 1)
        below == rank100 \div 100
        above == IF rank100 % 100 = 0 THEN below ELSE below + 1
        a == OrderStatistic(sq, below)
        b == OrderStatistic(sq, above)
    IN /\ 100 * (v - a) <= (rank100 % 100) * (b - a)
       /\ (rank100 % 100) * (b - a) < 100 * (v - a + 1)
       /\ a <= v /\ v <= b

\* C23: for non-empty retained samples, percentile(p) is the linear
\* interpolation between the two adjacent order statistics bounding the
\* fractional rank of p; it is the smallest sample for p = 0, the largest
\* for p = 100, and lies between min_time_ns() and max_time_ns(); the call
\* leaves the retained samples in their arrival order.
C23_PercentileInterpolates ==
    [][\A t \in Threads :
         /\ InPercentile(t) => perf'.samples = perf.samples
         /\ (PercentileStep(t) /\ perf.samples # <<>>) =>
              LET p == ret'[t].p
                  v == ret'[t].val
                  n == Len(perf.samples)
              IN /\ Interpolates(perf.samples, p, v)
                 /\ p = 0 => v = OrderStatistic(perf.samples, 0)
                 /\ p = 100 => v = OrderStatistic(perf.samples, n - 1)
                 /\ PerfMinTimeNs(perf) <= v
                 /\ v <= PerfMaxTimeNs(perf)]_vars
\* percentile(25) returned 50, halfway between the two smallest of the
\* samples 150, 0, 100, which are still in their arrival order.
C23_Witness ==
    /\ ret[Main].kind = "percentile"
    /\ ret[Main].p = 25
    /\ ret[Main].val = 50
    /\ perf.samples = <<150, 0, 100>>

\* Thread t completes a call of allocate in this step.
AllocateStep(t) == pc[t] = "allocate_body" /\ pc'[t] = "idle"

\* C24: the handle every call of allocate<T>(count) returns is a multiple
\* of alignof(T), whatever was allocated before it.
C24_HandleIsAligned ==
    [][\A t \in Threads :
         AllocateStep(t) =>
           ret'[t].val % TypeInfo[op[t].type].align = 0]_vars
\* An AlignedStruct was allocated inside a chunk whose bump pointer was
\* not a multiple of 32: the handle lies above the chunk's base, after an
\* int and its header.
C24_Witness ==
    /\ ret[Main].kind = "allocate"
    /\ ret[Main].val % 32 = 0
    /\ \E c \in pool[SharedPool].buffer_.chunks :
         /\ c.base + 4 + BlockHeaderInfo.size < ret[Main].val
         /\ ret[Main].val + 32 <= ChunkEnd(c)
         /\ c.base \in DOMAIN pool[SharedPool].active_allocations_
         /\ pool[SharedPool].headers[
                pool[SharedPool].active_allocations_[c.base]].size = 4
         /\ pool[SharedPool].headers[
                pool[SharedPool].active_allocations_[ret[Main].val]].size = 32

\* The steps in which a call reads or writes the tracking table.
WriterBodies == {"allocate_body", "deallocate_body", "reset_body"}
ReaderBodies == {"count_body", "leaks_body", "report_body"}

\* C25: allocate, deallocate and reset touch the tracking table only while
\* their thread holds the pool's lock exclusively, the three queries only
\* while their thread holds it shared; a thread never holds the lock
\* exclusively while another thread holds it in either mode, and the table
\* changes only in a step of the thread that holds the lock exclusively.
C25_LockDiscipline ==
    [][\A p \in PoolIds :
         LET m == pool[p].mutex_
         IN /\ \A t \in Threads :
                 /\ (pc[t] \in WriterBodies /\ op[t].pool = p) =>
                       m.writer = t
                 /\ (pc[t] \in ReaderBodies /\ op[t].pool = p) =>
                       t \in m.readers
            /\ m.writer # NoThread => m.readers = {}
            /\ pool'[p].active_allocations_ # pool[p].active_allocations_ =>
                 /\ m.writer # NoThread
                 /\ pc[m.writer] \in WriterBodies
                 /\ pc'[m.writer] = "idle"
                 /\ \A u \in Threads \ {m.writer} : pc'[u] = pc[u]]_vars
\* The allocator holds the lock exclusively inside allocate, with a live
\* record in the table, while the resetter waits to reset and the observer
\* waits to read the leak report.
C25_Witness ==
    /\ pc[Allocator] = "allocate_body"
    /\ pool[SharedPool].mutex_.writer = Allocator
    /\ pc[Resetter] = "reset_lock"
    /\ pc[Observer] = "report_lock"
    /\ pool[SharedPool].active_allocations_ # EmptyMap

\* Some thread inside a call can take a step.
NoDeadlock ==
    (\E t \in Sharers : pc[t] # "idle") =>
      \E t \in Sharers : ENABLED (LockStep(t) \/ BodyStep(t))

\* C26: under fair scheduling every call of allocate, deallocate, reset,
\* active_allocation_count, has_memory_leaks and get_leak_report, by any
\* thread and whatever the other threads call, eventually returns, and no
\* reachable state is a deadlock.
C26_EveryCallReturns ==
    /\ \A t \in Sharers : (pc[t] # "idle") ~> (pc[t] = "idle")
    /\ []NoDeadlock

\* The sum of the sizes the headers of the live records of pool pl hold.
RECURSIVE LiveBytes(_, _)
LiveBytes(pl, keys) ==
    IF keys = {} THEN 0
    ELSE LET k == CHOOSE x \in keys : TRUE
         IN pl.headers[pl.active_allocations_[k]].size
              + LiveBytes(pl, keys \ {k})

\* C27: in every state in which no thread holds the pool's lock
\* exclusively, the table has at most allocation_count_ records,
\* total_allocated_ is at least the sum of the sizes of the live records,
\* and allocation_count_ and total_allocated_ are the number and the total
\* byte size of the allocate calls completed since the last reset.
C27_LifetimeCounters ==
    \A p \in PoolIds :
      pool[p].mutex_.writer = NoThread =>
        /\ Cardinality(DOMAIN pool[p].active_allocations_)
              <= CounterGet(pool[p].allocation_count_)
        /\ LiveBytes(pool[p], DOMAIN pool[p].active_allocations_)
              <= CounterGet(pool[p].total_allocated_)
        /\ CounterGet(pool[p].allocation_count_) = hist.completed[p].calls
        /\ CounterGet(pool[p].total_allocated_) = hist.completed[p].bytes
\* After a reset, two allocations of 4 bytes completed and one of them
\* was deallocated: the counters are 2 and 8, the table holds one
\* record, while another thread reads the count under the shared lock.
C27_Witness ==
    /\ hist.resets = 1
    /\ pool[SharedPool].mutex_.writer = NoThread
    /\ pool[SharedPool].mutex_.readers # {}
    /\ CounterGet(pool[SharedPool].allocation_count_) = 2
    /\ CounterGet(pool[SharedPool].total_allocated_) = 8
    /\ Cardinality(DOMAIN pool[SharedPool].active_allocations_) = 1
    /\ hist.freed[SharedPool] # {}

\* The calls replayed after a reset: allocate with any of the run's
\* arguments, deallocate of the i-th handle the replay returned (of a
\* local variable's address when there is none).
ReplayCalls ==
    {<<"allocate", a>> : a \in ArgsFor(scenario)}
      \cup {<<"deallocate", i>> : i \in 1..MaxCalls}
\* What the three queries of pool pl show.
Observed(pl) ==
    <<ActiveAllocationCountCode(pl), HasMemoryLeaksCode(pl),
      Len(GetLeakReportCode(pl, now))>>
\* The pools (with the upstream and the handles returned so far) one call
\* c can lead to from pool pl, one for each place the upstream may choose.
AfterCall(pl, h, hs, c) ==
    IF c[1] = "allocate"
    THEN LET T == c[2][1]
             size == TypeInfo[T].size * c[2][2]
         IN UNION {
              LET r1 == MonoAllocate(pl.buffer_, size, TypeInfo[T].align, b1)
              IN { LET r == AllocateCode(pl, T, c[2][2], now, b1, b2)
                   IN [pl |-> r.pool, h |-> HeapTake(h, r.chunks),
                       hs |-> Append(hs, r.ptr)] :
                   b2 \in BaseChoices(r1.buf, HeapTake(h, r1.chunk),
                                      BlockHeaderInfo.size,
                                      BlockHeaderInfo.align) } :
              b1 \in BaseChoices(pl.buffer_, h, size, TypeInfo[T].align) }
    ELSE { [pl |-> DeallocateCode(pl, IF c[2] <= Len(hs) THEN hs[c[2]]
                                      ELSE StackVarAddr),
            h |-> h, hs |-> hs] }
\* The runs of at most d calls on pool pl: every sequence of calls, each
\* call paired with what the queries show after it.
RECURSIVE Replay(_, _, _, _)
Replay(pl, h, hs, d) ==
    IF d = 0 THEN {<<>>}
    ELSE {<<>>} \cup
         UNION { UNION { { <<<<c, Observed(n.pl)>>>> \o tr :
                           tr \in Replay(n.pl, n.h, n.hs, d - 1) } :
                         n \in AfterCall(pl, h, hs, c) } :
                 c \in ReplayCalls }

\* C28: reset() returns the pool to the state of a new pool: when it
\* returns the table is empty and both lifetime counters are 0, and every
\* sequence of allocate and deallocate calls made from then on shows the
\* same active_allocation_count(), has_memory_leaks() and leak-report size
\* as the same sequence made on a newly constructed pool.
C28_ResetIsNewPool ==
    [][\A t \in Threads : \A p \in PoolIds :
         ResetStep(t, p) =>
           /\ pool'[p].active_allocations_ = EmptyMap
           /\ CounterGet(pool'[p].allocation_count_) = 0
           /\ CounterGet(pool'[p].total_allocated_) = 0
           /\ Replay(pool'[p], heap', <<>>, MaxCalls)
                = Replay(NewPool(InitialSize),
                         [live |-> {}, brk |-> HeapBase], <<>>, MaxCalls)]_vars
\* reset() returned on a pool that had grown beyond its first chunk and
\* held a live allocation and a deallocated one.
C28_Witness ==
    /\ ret[Main].kind = "reset"
    /\ hist.last.name = "reset"
    /\ hist.allocs = 2
    /\ Cardinality(issued[SharedPool]) = 2
    /\ heap.brk > HeapBase + InitialSize
    /\ pool[SharedPool].buffer_.chunks = {}

\* C29: allocate never returns a handle that is a key of the tracking
\* table at that moment, for every element type and count, count = 0
\* included: every allocate call adds exactly one record and leaves every
\* record the table held as it was.
C29_HandlesUniqueWhileLive ==
    [][\A t \in Threads :
         AllocateStep(t) =>
           LET before == pool[op[t].pool].active_allocations_
               after == pool'[op[t].pool].active_allocations_
           IN /\ ret'[t].val \notin DOMAIN before
              /\ ret'[t].val \in DOMAIN after
              /\ Cardinality(DOMAIN after) = Cardinality(DOMAIN before) + 1
              /\ \A k \in DOMAIN before :
                   k \in DOMAIN after /\ after[k] = before[k]]_vars
\* Two allocations of zero elements are live on an implementation whose
\* buffer hands out no byte for an empty request: each handle is the
\* address of its own header, and the two handles differ.
C29_Witness ==
    /\ impl.zero_size = 0
    /\ Cardinality(DOMAIN pool[SharedPool].active_allocations_) = 2
    /\ \A k \in DOMAIN pool[SharedPool].active_allocations_ :
         /\ pool[SharedPool].active_allocations_[k] = k
         /\ pool[SharedPool].headers[k].size = 0

\* The byte ranges [a, a + n) and [b, b + m) have a byte in common.
RangesMeet(a, n, b, m) == a < b + m /\ b < a + n
\* The byte size of the live allocation with handle k of pool pl.
LiveSize(pl, k) == pl.headers[pl.active_allocations_[k]].size

\* C30: the bytes [h, h + count * sizeof(T)) of every live allocation lie
\* in a chunk of the pool's buffer, and have no byte in common with the
\* bytes of any other live allocation of the pool nor with any
\* block_header the pool placed in the buffer (the only bytes of the
\* buffer that allocate and deallocate write), so a value written through
\* a handle is not changed by a later allocate or deallocate call.
C30_LiveRangesDisjoint ==
    \A p \in PoolIds :
      LET pl == pool[p]
          live == DOMAIN pl.active_allocations_
      IN \A k \in live :
           /\ LiveSize(pl, k) > 0 =>
                \E c \in pl.buffer_.chunks :
                  c.base <= k /\ k + LiveSize(pl, k) <= ChunkEnd(c)
           /\ \A j \in live \ {k} :
                ~RangesMeet(k, LiveSize(pl, k), j, LiveSize(pl, j))
           /\ \A a \in DOMAIN pl.headers :
                ~RangesMeet(k, LiveSize(pl, k), a, BlockHeaderInfo.size)
\* An allocation of 100 chars and one of 5 doubles are live in different
\* chunks of the pool, each followed by its header.
C30_Witness ==
    LET pl == pool[SharedPool]
    IN /\ Cardinality(DOMAIN pl.active_allocations_) = 2
       /\ \E k \in DOMAIN pl.active_allocations_ : LiveSize(pl, k) = 100
       /\ \E k \in DOMAIN pl.active_allocations_ : LiveSize(pl, k) = 40
       /\ Cardinality(pl.buffer_.chunks) >= 2
       /\ Cardinality(DOMAIN pl.headers) = 2

\* C31: a record's size and allocation time are fixed when allocate
\* creates it: an allocate call and a deallocate call of a handle h leave
\* every other live record in the table with the header, size and
\* allocation time it had; the only thing deallocate writes in the header
\* of h is its allocated flag (false, and the record leaves the table), so
\* every record in the table has its allocated flag set.
C31_RecordsAreFixed ==
    /\ [](\A p \in PoolIds :
            \A k \in DOMAIN pool[p].active_allocations_ :
              /\ pool[p].active_allocations_[k] \in DOMAIN pool[p].headers
              /\ pool[p].headers[pool[p].active_allocations_[k]].allocated)
    /\ [][\A t \in Threads :
            LET before == pool[op[t].pool].active_allocations_
                after == pool'[op[t].pool].active_allocations_
                hb == pool[op[t].pool].headers
                ha == pool'[op[t].pool].headers
            IN /\ AllocateStep(t) =>
                    /\ DOMAIN after = DOMAIN before \cup {ret'[t].val}
                    /\ \A k \in DOMAIN before :
                         after[k] = before[k] /\ ha[after[k]] = hb[before[k]]
                    /\ ha[after[ret'[t].val]] =
                         [size |-> TypeInfo[op[t].type].size * op[t].count,
                          allocated |-> TRUE, allocation_time |-> now]
               /\ DeallocateStep(t) =>
                    /\ DOMAIN after = DOMAIN before \ {op[t].ptr}
                    /\ \A k \in DOMAIN after :
                         after[k] = before[k] /\ ha[after[k]] = hb[before[k]]
                    /\ IF op[t].ptr \in DOMAIN before
                       THEN ha[before[op[t].ptr]] =
                              [hb[before[op[t].ptr]] EXCEPT
                                 !.allocated = FALSE]
                       ELSE ha = hb]_vars
\* deallocate found the record of an int allocated at time 0 and returned:
\* its header still says 4 bytes and time 0, and the record of two doubles
\* allocated at time 1 is in the table as it was.
C31_Witness ==
    LET pl == pool[SharedPool]
    IN /\ hist.last.name = "deallocate"
       /\ hist.last.found
       /\ \E a \in DOMAIN pl.headers :
            /\ ~pl.headers[a].allocated
            /\ pl.headers[a].size = 4
            /\ pl.headers[a].allocation_time = 0
       /\ \E k \in DOMAIN pl.active_allocations_ :
            /\ LiveSize(pl, k) = 16
            /\ pl.headers[pl.active_allocations_[k]].allocation_time = 1

\* The handles allocate has returned from pool p since its last reset.
SinceReset(p) == {c[2] : c \in hist.outstanding[p]} \cup hist.freed[p]

\* C33 as stated: a deallocate call made after a reset with a handle the
\* client was given before that reset leaves the tracking table, and so
\* active_allocation_count(), as it was, however many allocate calls were
\* made in between.
C33_StaleHandleMatchesNothing ==
    [][\A t \in Threads :
         (DeallocateStep(t) /\ op[t].ptr \in client.old) =>
           pool'[op[t].pool].active_allocations_
             = pool[op[t].pool].active_allocations_]_vars

\* C33 as amended: a deallocate call made after a reset with a handle from
\* before that reset removes at most the record filed under that address,
\* and removes it only if an allocate call made since the reset returned
\* the same address again; every other record stays, the lifetime
\* counters are not touched, and when no allocate call since the reset
\* returned that address the table is left as it was.
C33_StaleHandleMatchesOnlyItsAddress ==
    [][\A t \in Threads :
         (DeallocateStep(t) /\ op[t].ptr \in client.old) =>
           LET p == op[t].pool
               before == pool[p].active_allocations_
               after == pool'[p].active_allocations_
           IN /\ DOMAIN after = DOMAIN before \ {op[t].ptr}
              /\ \A k \in DOMAIN after : after[k] = before[k]
              /\ op[t].ptr \notin SinceReset(p) => after = before
              /\ after # before => op[t].ptr \in SinceReset(p)
              /\ pool'[p].allocation_count_ = pool[p].allocation_count_
              /\ pool'[p].total_allocated_ = pool[p].total_allocated_]_vars
\* After the reset an allocate call returned an address the client already
\* held a handle to, and a deallocate call with that handle found the new
\* record and removed it.
C33_Witness ==
    /\ hist.last.name = "deallocate"
    /\ hist.last.found
    /\ hist.last.ptr \in client.old
    /\ hist.resets = 1
    /\ CounterGet(pool[SharedPool].allocation_count_) >= 1

\* Thread t completes one of the three queries in this step.
QueryStep(t) == pc[t] \in ReaderBodies /\ pc'[t] = "idle"

\* C32: every value active_allocation_count(), has_memory_leaks() and
\* get_leak_report() return while other threads allocate, deallocate and
\* reset is the size (the non-emptiness, the handles) of the tracking
\* table at one instant between the call's start and its return: at that
\* instant no thread is inside allocate, deallocate or reset with the
\* table partly updated, and the table holds exactly the records of the
\* allocate calls that have returned and were neither deallocated nor
\* reset away since.
C32_QueriesAreLinearizable ==
    [][\A t \in Threads :
         QueryStep(t) =>
           LET p == op[t].pool
               table == DOMAIN pool[p].active_allocations_
           IN /\ \A u \in Threads :
                   ~(pc[u] \in WriterBodies /\ op[u].pool = p)
              /\ table = {c[2] : c \in hist.outstanding[p]}
              /\ pool'[p].active_allocations_ = pool[p].active_allocations_
              /\ pc[t] = "count_body" => ret'[t].val = Cardinality(table)
              /\ pc[t] = "leaks_body" => (ret'[t].val <=> table # {})
              /\ pc[t] = "report_body" =>
                   /\ {e[1] : e \in Range(ret'[t].val)} = table
                   /\ Len(ret'[t].val) = Cardinality(table)]_vars
\* active_allocation_count() returned 1 while the allocator waits for the
\* lock inside its second allocate call and the observer holds the lock
\* shared inside get_leak_report: the call not yet made is not counted.
C32_Witness ==
    /\ ret[Resetter].kind = "active_allocation_count"
    /\ ret[Resetter].val = 1
    /\ pc[Allocator] = "allocate_lock"
    /\ hist.allocs = 2
    /\ pc[Observer] = "report_body"

\* C34: every operation of the pool releases the lock on every path: a
\* thread holds the lock of a pool, in either mode, only between taking it
\* inside a call and that call's return, so a thread that has returned
\* (from allocate, from deallocate whether or not it found the handle,
\* from reset or from a query) holds it in no mode, and the lock is free
\* in every state in which no call is in progress.
C34_LockReleasedOnReturn ==
    \A p \in PoolIds :
      LET m == pool[p].mutex_
      IN /\ \A t \in Threads :
              (pc[t] \notin WriterBodies \cup ReaderBodies) =>
                 m.writer # t /\ t \notin m.readers
         /\ (\A t \in Threads : pc[t] = "idle") =>
              m.writer = NoThread /\ m.readers = {}
\* The three threads have returned, the allocator from a deallocate call
\* that did not find its handle, the resetter from reset and the observer
\* from get_leak_report, and the lock is free.
C34_Witness ==
    /\ \A t \in Threads : pc[t] = "idle"
    /\ hist.last.name = "deallocate"
    /\ ~hist.last.found
    /\ ret[Allocator].kind = "deallocate"
    /\ ret[Resetter].kind = "reset"
    /\ ret[Observer].kind = "get_leak_report"
    /\ pool[SharedPool].mutex_ = [writer |-> NoThread, readers |-> {}]
    /\ issued[SharedPool] # {}

\* C35: a reset() that runs while other threads are inside allocate and
\* deallocate calls leaves the pool sound: in every state in which no
\* thread is inside the critical section of allocate, deallocate or reset
\* (so in every state in which all calls have returned), the table holds
\* exactly the handles returned by the allocate calls that took the lock
\* after the last reset and have not been deallocated since,
\* allocation_count_ is the number of allocate calls that took the lock
\* after that reset, and every record's header lies in a chunk the buffer
\* still owns.
C35_ResetUnderLoadIsSound ==
    \A p \in PoolIds :
      LET pl == pool[p]
      IN (\/ \A t \in Threads : pc[t] = "idle"
          \/ pl.mutex_.writer = NoThread) =>
           /\ DOMAIN pl.active_allocations_
                = {c[2] : c \in hist.outstanding[p]}
           /\ Cardinality(DOMAIN pl.active_allocations_)
                = Cardinality(hist.outstanding[p])
           /\ CounterGet(pl.allocation_count_) = hist.completed[p].calls
           /\ pl.buffer_.chunks \subseteq heap.live
           /\ \A k \in DOMAIN pl.active_allocations_ :
                /\ pl.active_allocations_[k] \in DOMAIN pl.headers
                /\ \E c \in pl.buffer_.chunks :
                     /\ c.base <= pl.active_allocations_[k]
                     /\ pl.active_allocations_[k] + BlockHeaderInfo.size
                          <= ChunkEnd(c)
\* reset() has just returned; it held the lock while the allocator's
\* second allocate call was waiting for it, after the first had returned
\* a handle: the table is empty and allocation_count_ is 0, and the
\* waiting call has yet to take the lock.
C35_Witness ==
    /\ hist.last.name = "reset"
    /\ "allocate" \in hist.last.during
    /\ ret[Resetter].kind = "reset"
    /\ pc[Allocator] = "allocate_lock"
    /\ hist.allocs = 2
    /\ issued[SharedPool] # {}
    /\ pool[SharedPool].mutex_.writer = NoThread
    /\ pool[SharedPool].active_allocations_ = EmptyMap
    /\ CounterGet(pool[SharedPool].allocation_count_) = 0

\* The number of places of the sequence sq that hold the value d.
CountOf(sq, d) == Cardinality({i \in DOMAIN sq : sq[i] = d})

\* C36: the aggregate updates lose nothing when threads commit at the
\* same time: after the join of the workers, with no reset, min_time_ns()
\* is the smallest committed sample, max_time_ns() the largest,
\* total_time_ns() the sum of all committed samples, and the retained
\* samples hold every committed sample exactly once.
C36_ConcurrentCommitsLoseNothing ==
    (client.phase \in {"joined", "done"} /\ hist.resets = 0) =>
      /\ Cardinality(hist.closed) = Cardinality(Workers) * ScopesPerThread
      /\ PerfMinTimeNs(perf) \in Durations
      /\ \A d \in Durations : PerfMinTimeNs(perf) <= d
      /\ PerfMaxTimeNs(perf) \in Durations
      /\ \A d \in Durations : d <= PerfMaxTimeNs(perf)
      /\ PerfTotalTimeNs(perf) = SumOf(hist.closed)
      /\ Len(perf.samples) = Cardinality(hist.closed)
      /\ \A c \in hist.closed : hist.commits[c[1]] = 1
      /\ \A d \in Durations :
           CountOf(perf.samples, d)
             = Cardinality({c \in hist.closed : c[2] = d})
\* The workers are joined; the first scope of each lasted one tick and the
\* two overlapped, so that their commits updated the aggregates at the
\* same time; the later scopes lasted no tick.  The total is 2, the
\* minimum 0 and the maximum 1.
C36_Witness ==
    /\ client.phase = "joined"
    /\ Len(perf.samples) = Cardinality(Workers) * ScopesPerThread
    /\ perf.samples[1] = 1
    /\ perf.samples[2] = 1
    /\ PerfTotalTimeNs(perf) = 2
    /\ PerfMinTimeNs(perf) = 0
    /\ PerfMaxTimeNs(perf) = 1

\* C37: reset() clears the samples and the aggregates as one unit: once a
\* reset and every commit that ran at the same time have returned, count()
\* is the number of retained samples, and a counter that retains no sample
\* holds no aggregate of a sample from before the reset either.
C37_ResetIsOneUnit ==
    (/\ hist.resets > 0
     /\ \A t \in Threads : ~Committing(t)
     /\ pc[Main] \notin {"perf_reset_lock", "perf_reset_body"}) =>
      /\ PerfCount(perf) = Len(perf.samples)
      /\ perf.samples = <<>> =>
           [perf EXCEPT !.lock = NewPerf.lock] = NewPerf

\* C38: percentile(p) holds the samples' lock in shared mode only, and
\* only while it copies the samples: it holds no lock before the copy nor
\* while it sorts and interpolates, so a commit that arrives during the
\* sort can take the lock and append at once; the value returned is the
\* interpolation over the samples retained at the instant of the copy,
\* whatever was appended or cleared afterwards, and the call changes no
\* sample.
C38_PercentileCopiesThenSorts ==
    /\ [](\A t \in Threads :
            /\ pc[t] = "percentile_copy" =>
                 t \in perf.lock.readers /\ perf.lock.writer = NoThread
            /\ pc[t] \in {"percentile_lock", "percentile_sort"} =>
                 t \notin perf.lock.readers /\ perf.lock.writer # t
            /\ \A u \in Threads :
                 (pc[t] = "percentile_sort" /\ pc[u] = "commit_lock") =>
                    ENABLED CommitLock(u))
    /\ [][\A t \in Threads :
            /\ (pc[t] = "percentile_copy" /\ pc'[t] = "percentile_sort") =>
                 op'[t].copy = perf.samples /\ perf'.samples = perf.samples
            /\ PercentileStep(t) =>
                 /\ perf' = perf
                 /\ IF op[t].copy = <<>> THEN ret'[t].val = 0
                    ELSE Interpolates(op[t].copy, ret'[t].p, ret'[t].val)]_vars
\* percentile is sorting its copy of one sample, holding no lock, while a
\* second sample has been appended to the retained samples and the
\* committing thread is already updating the aggregates.
C38_Witness ==
    /\ pc[Main] = "percentile_sort"
    /\ Len(op[Main].copy) = 1
    /\ Len(perf.samples) = 2
    /\ perf.samples[2] # op[Main].copy[1]
    /\ pc[Timer] = "commit_count"
    /\ perf.lock = NewPerf.lock

\* C39: format_value never lets an exception out.  When formatting the
\* value throws, the call returns the string "unprintable", held by the
\* allocator of the calling thread's tl_pool; otherwise it returns exactly
\* the string value_formatter<T>::format returned, with the same allocator.
C39_FormatValueNeverThrows ==
    \A t \in Threads :
      ret[t].kind = "format_value" =>
        /\ ~ret[t].thrown
        /\ ret[t].pool = t
        /\ IF ValueFormatterFormat(ret[t].arg).thrown
           THEN ret[t].val = "unprintable"
           ELSE ret[t].val = ValueFormatterFormat(ret[t].arg).val
\* format_value of a ThrowingStreamableType returned "unprintable" on the
\* main thread, after an earlier call had formatted a value normally.
C39_Witness ==
    /\ ret[Main].kind = "format_value"
    /\ ret[Main].arg.kind = "throwing"
    /\ ret[Main].val = "unprintable"
    /\ ~ret[Main].thrown
    /\ hist.formats > 1
    /\ pool[Main].buffer_.chunks # {}

====
